---- MODULE Spec2Model ----
(***************************************************************************)
(* Model of the FORGE risk engine (src/forge_risk_engine.py): dataset      *)
(* validation, the two scheduling strategies (solve_with_cp_sat and        *)
(* solve_with_pulp) and the summary built by analyze_risk_plan; and of the *)
(* FORGE MCP server (src/forge_mcp_server.py): its tools and the           *)
(* module-level LAST_ANALYSIS they share.                                  *)
(*                                                                         *)
(* Real-valued quantities (Score, Res_Score, CTA, target ceilings, costs   *)
(* and reductions of a schedule) are fixed-point numbers: the integer n    *)
(* stands for the real n / Scale.  With Scale = 2 every value is a         *)
(* multiple of 0.5, which binary floating point represents exactly, so     *)
(* the float sums of the code are the integer sums of the model.           *)
(* LeadTime, Capacity, days and ids are plain integers.                    *)
(*                                                                         *)
(* The constraint solvers themselves (OR-tools CP-SAT, CBC behind PuLP)    *)
(* are libraries: the model takes the constraint system and the objective  *)
(* the code builds, and lets the solver return any optimal solution of it. *)
(***************************************************************************)
EXTENDS Integers, Sequences, FiniteSets, TLC

Scale == 2

MaxTasks == 2
MaxDeadline == 2
MaxCapacity == 2
MaxCeiling == 3

\* Python's None, and a present value, for the optional parameters and fields
None == <<>>
Some(v) == <<v>>
Get(o) == o[1]

VARIABLES
    risks,                   \* the standardized frame handed to validate_risk_data
    risks_is_none,           \* TRUE when the call passes no records (risks is None)
    num_records,             \* analyze_risk_plan(num_records=...)
    deadline,                \* analyze_risk_plan(deadline=...)
    team_capacity,           \* analyze_risk_plan(team_capacity=...)
    target_score_max,        \* explicit ceiling, or None
    target_remaining_ratio,  \* [num, den], used when no explicit ceiling is given
    solver,                  \* the solver name of the call ("none" before the call)
    pc,                      \* "call" | "done" | "raised"
    outcome,                 \* the AnalysisSummary returned (None before the return)
    raised,                  \* the exception raised ("none" when none was)
    LAST_ANALYSIS,           \* forge_mcp_server.LAST_ANALYSIS: None or an AnalysisSummary
    calls,                   \* the tool calls of the server, by call id
    store_count              \* how many times _store_last has run

engine_vars == <<risks, risks_is_none, num_records, deadline, team_capacity,
                 target_score_max, target_remaining_ratio, solver, pc, outcome, raised>>

server_vars == <<LAST_ANALYSIS, calls, store_count>>

\* normalize_predecessors(value) of _standardize_risk_frame
VARIABLES
    value,                   \* the raw Predecessors value of a record
    normalized               \* how the call ended (kind "pending" before it ends)

normalize_vars == <<value, normalized>>

NormalizeAtRest ==
    /\ value = [shape |-> "None"]
    /\ normalized = [kind |-> "pending"]

\* benchmark_solvers(iterations, num_records, deadline, team_capacity,
\* target_remaining_ratio)
VARIABLES
    iterations,              \* benchmark_solvers(iterations=...)
    bench_pc,                \* "call" | "loop" | "done" | "raised"
    bench_df,                \* the frame prepare_risk_data returned (None before)
    invoked,                 \* the solver invocations made, in order
    durations,               \* the durations recorded, by solver name
    bench_summary,           \* the timing summary returned (None before the return)
    bench_raised             \* the exception benchmark_solvers raised ("none" if none)

benchmark_vars == <<iterations, bench_pc, bench_df, invoked, durations,
                    bench_summary, bench_raised>>

BenchmarkAtRest ==
    /\ iterations = 5
    /\ bench_pc = "call"
    /\ bench_df = None
    /\ invoked = <<>>
    /\ durations = [name \in {"cp-sat", "pulp"} |-> <<>>]
    /\ bench_summary = None
    /\ bench_raised = "none"

\* _ensure_acyclic_dependency_graph(df), one call of dfs at a time
VARIABLES
    dfs_pc,                  \* "loop" | "done" | "raised"
    node_index,              \* position of `for node in graph` (rows already started)
    dfs_stack,               \* the dfs calls in progress, innermost last
    dfs_visiting,            \* the set `visiting`
    dfs_visited,             \* the set `visited`
    dfs_raised               \* the exception raised ("none" when none was)

cycle_vars == <<dfs_pc, node_index, dfs_stack, dfs_visiting, dfs_visited, dfs_raised>>

CycleAtRest ==
    /\ dfs_pc = "loop"
    /\ node_index = 0
    /\ dfs_stack = <<>>
    /\ dfs_visiting = {}
    /\ dfs_visited = {}
    /\ dfs_raised = "none"

\* jira_bulk_from_template.main: runs of the bulk creator over one state file
VARIABLES
    state_file,              \* the "issues" object of the state file on disk
    data,                    \* StateStore.data["issues"] of the run in progress
    jira_issues,             \* the issues that exist in Jira, by logical id
    run_pc,                  \* "idle" | "get_issue" | "create_issue" | "set_issue"
    item_index,              \* the position of the run in the list of items
    issue_key,               \* the key create_issue returned (0 when none)
    runs                     \* the runs started so far

jira_vars == <<state_file, data, jira_issues, run_pc, item_index, issue_key, runs>>

\* the logical ids of the items main creates for the metadata, in its order:
\* one feed and one scenario, one sub-task row each
ItemIds ==
    << "feed.feature", "feed.story.A", "feed.subtask.A.1",
       "scenario.feature.S", "scenario.story.S", "scenario.subtask.S.1" >>

LogicalIds == {ItemIds[k] : k \in DOMAIN ItemIds}

JiraAtRest ==
    /\ state_file = [id \in LogicalIds |-> 0]
    /\ data = [id \in LogicalIds |-> 0]
    /\ jira_issues = [id \in LogicalIds |-> 0]
    /\ run_pc = "idle"
    /\ item_index = 0
    /\ issue_key = 0
    /\ runs = 0

\* JiraClient._request(method, path)
VARIABLES
    max_retries,             \* JiraClient.max_retries
    auth_mode,               \* "basic" | "bearer" | "auto"
    email,                   \* TRUE when an email is configured
    authorization,           \* the scheme of headers["Authorization"]
    attempt,                 \* the loop variable (0 before the first attempt)
    sent,                    \* HTTP requests sent, one entry per attempt
    resp,                    \* the last response, or the exception of the send
    request_pc               \* "loop" | "first" | "fallback" | "second" | "returned" | "raised"

request_vars == <<max_retries, auth_mode, email, authorization, attempt, sent, resp,
                  request_pc>>

NoResponse == [status |-> 0, body |-> "none"]

RequestAtRest ==
    /\ max_retries = 0
    /\ auth_mode = "bearer"
    /\ email = FALSE
    /\ authorization = "Bearer"
    /\ attempt = 0
    /\ sent = <<>>
    /\ resp = NoResponse
    /\ request_pc = "loop"

other_vars == <<normalize_vars, benchmark_vars, cycle_vars, jira_vars, request_vars>>

OthersAtRest ==
    NormalizeAtRest /\ BenchmarkAtRest /\ CycleAtRest /\ JiraAtRest /\ RequestAtRest

outside_engine == <<server_vars, other_vars>>
outside_server == <<engine_vars, other_vars>>

vars == <<engine_vars, server_vars, other_vars>>

(***************************************************************************)
(* Arithmetic helpers.                                                     *)
(***************************************************************************)
Max(a, b) == IF a >= b THEN a ELSE b

MinOf(S) == CHOOSE m \in S : \A x \in S : m <= x

RECURSIVE SumSet(_, _)
SumSet(f, S) ==
    IF S = {} THEN 0
    ELSE LET x == CHOOSE y \in S : TRUE IN f[x] + SumSet(f, S \ {x})

RECURSIVE SumSeq(_, _)
SumSeq(f, n) == IF n = 0 THEN 0 ELSE f[n] + SumSeq(f, n - 1)

\* math.ceil of the real h / Scale, as an integer
Ceil(h) == -((-h) \div Scale)

\* int(round(x)) of the real h / Scale: Python rounds halves to the even integer
PyRound(h) ==
    LET q == h \div Scale
        r == h % Scale
    IN  IF 2 * r < Scale THEN q
        ELSE IF 2 * r > Scale THEN q + 1
        ELSE IF q % 2 = 0 THEN q ELSE q + 1

(***************************************************************************)
(* The frame: a sequence of rows with the canonical columns.               *)
(***************************************************************************)
Ids(df) == {df[k].ID : k \in DOMAIN df}

RowOf(df, id) == df[CHOOSE k \in DOMAIN df : df[k].ID = id]

TotalScore(df) == SumSeq([k \in DOMAIN df |-> df[k].Score], Len(df))

(***************************************************************************)
(* _ensure_acyclic_dependency_graph: recursive depth-first search with the *)
(* sets visiting and visited.  dfs returns the visited set and whether the *)
(* ValueError for a cycle was raised.                                      *)
(***************************************************************************)
DependencyGraph(df) == [id \in Ids(df) |-> RowOf(df, id).Predecessors]

RECURSIVE dfs(_, _, _, _), dfs_preds(_, _, _, _, _)
dfs(graph, node, visiting, visited) ==
    IF node \in visited THEN [visited |-> visited, cycle |-> FALSE]
    ELSE IF node \in visiting THEN [visited |-> visited, cycle |-> TRUE]
    ELSE LET r == dfs_preds(graph, graph[node], 1, visiting \cup {node}, visited)
         IN  IF r.cycle THEN r
             ELSE [visited |-> r.visited \cup {node}, cycle |-> FALSE]

dfs_preds(graph, preds, k, visiting, visited) ==
    IF k > Len(preds) THEN [visited |-> visited, cycle |-> FALSE]
    ELSE IF preds[k] \notin DOMAIN graph
         THEN dfs_preds(graph, preds, k + 1, visiting, visited)
         ELSE LET r == dfs(graph, preds[k], visiting, visited)
              IN  IF r.cycle THEN r
                  ELSE dfs_preds(graph, preds, k + 1, visiting, r.visited)

RECURSIVE dfs_all(_, _, _, _)
dfs_all(df, graph, k, visited) ==
    IF k > Len(df) THEN FALSE
    ELSE LET r == dfs(graph, df[k].ID, {}, visited)
         IN  IF r.cycle THEN TRUE ELSE dfs_all(df, graph, k + 1, r.visited)

\* mutant: the search is started from the first row only
HasCycle_first_row_only(df) == dfs(DependencyGraph(df), df[1].ID, {}, {}).cycle

\* TRUE iff _ensure_acyclic_dependency_graph raises
HasCycle(df) == dfs_all(df, DependencyGraph(df), 1, {})

(***************************************************************************)
(* validate_risk_data: the first failing check, in the order of the code,  *)
(* or "ok".                                                                *)
(***************************************************************************)
\* the loop over rows and their predecessors: the first offending reference
PredecessorError(df) ==
    LET all_ids == Ids(df)
        bad(k, j) == df[k].Predecessors[j] \notin all_ids
                     \/ df[k].Predecessors[j] = df[k].ID
        slots == UNION {{<<k, j>> : j \in {i \in DOMAIN df[k].Predecessors : bad(k, i)}} :
                        k \in DOMAIN df}
    IN  IF slots = {} THEN "ok"
        ELSE LET first == CHOOSE s \in slots :
                              \A o \in slots : s[1] < o[1] \/ (s[1] = o[1] /\ s[2] <= o[2])
                 pred == df[first[1]].Predecessors[first[2]]
             IN  IF pred \notin all_ids THEN "missing_predecessor" ELSE "self_predecessor"

validate_risk_data(df) ==
    IF Len(df) = 0 THEN "empty"
    ELSE IF \E j, k \in DOMAIN df : j < k /\ df[j].ID = df[k].ID THEN "duplicate_ids"
    ELSE IF \E k \in DOMAIN df : df[k].LeadTime <= 0 THEN "lead_time"
    ELSE IF \E k \in DOMAIN df : df[k].Capacity <= 0 THEN "capacity"
    ELSE IF \E k \in DOMAIN df : df[k].CTA < 0 THEN "cta"
    ELSE IF \E k \in DOMAIN df : df[k].Score < 0 \/ df[k].Res_Score < 0 THEN "negative_score"
    ELSE IF \E k \in DOMAIN df : df[k].Score < df[k].Res_Score THEN "residual_exceeds_score"
    ELSE IF PredecessorError(df) # "ok" THEN PredecessorError(df)
    ELSE IF HasCycle(df) THEN "cycle"
    ELSE "ok"

(***************************************************************************)
(* The solvers.  A candidate solution is a selection (the ids whose        *)
(* selection variable is 1) and a start day for every selected id.         *)
(* Solve returns the candidates that satisfy the constraints and minimise  *)
(* the objective; the empty set stands for an infeasible status.           *)
(***************************************************************************)
Placements(sel, lastDay) == [sel -> 0..lastDay]

\* Solve: among the candidates that satisfy the constraints, those of least
\* objective; objective maps a selection to its value
OptimalAssignments(satisfying, objective) ==
    IF satisfying = {} THEN {}
    ELSE LET best == MinOf({objective[a.selected] : a \in satisfying})
         IN  {a \in satisfying : objective[a.selected] = best}

\* what a strategy hands back: a frame of rows, None, or an exception
Frame(rows) == [kind |-> "frame", rows |-> rows, error |-> "none"]
Absent == [kind |-> "None", rows |-> <<>>, error |-> "none"]
Raises(e) == [kind |-> "raise", rows |-> <<>>, error |-> e]

\* the days on which a task started at day s with the given duration is active
ActiveAt(s, duration, t) == s <= t /\ t < s + duration

(***************************************************************************)
(* solve_with_cp_sat                                                       *)
(***************************************************************************)
\* start and end are IntVars over [0, deadline]; a present interval has
\* end = start + duration
cp_sat_interval_ok(df, dl, sel, st) ==
    \A i \in sel : st[i] + RowOf(df, i).LeadTime <= dl

cp_sat_reduction_needed(df, target) == Max(0, Ceil(TotalScore(df) - target))

cp_sat_reduction_val(r) == PyRound(r.Score - r.Res_Score)

cp_sat_value_ok(df, target, sel) ==
    SumSet([i \in Ids(df) |-> cp_sat_reduction_val(RowOf(df, i))], sel)
        >= cp_sat_reduction_needed(df, target)

\* x[rid] <= x[pred]
cp_sat_closed(df, sel) ==
    \A k \in DOMAIN df : \A j \in DOMAIN df[k].Predecessors :
        df[k].ID \in sel => df[k].Predecessors[j] \in sel

\* mutant: the successor is held behind the start, not the end, of its predecessor
cp_sat_precedence_ok_from_start(df, sel, st) ==
    \A k \in DOMAIN df : \A j \in DOMAIN df[k].Predecessors :
        LET rid == df[k].ID
            pred == df[k].Predecessors[j]
        IN  rid \in sel => st[rid] >= st[pred]

\* start[rid] >= end[pred], enforced only if x[rid]
cp_sat_precedence_ok(df, sel, st) ==
    \A k \in DOMAIN df : \A j \in DOMAIN df[k].Predecessors :
        LET rid == df[k].ID
            pred == df[k].Predecessors[j]
        IN  rid \in sel => st[rid] >= st[pred] + RowOf(df, pred).LeadTime

\* AddCumulative(intervals, demands, max_capacity)
cp_sat_cumulative_ok(df, dl, max_capacity, sel, st) ==
    \A t \in 0..dl :
        SumSet([i \in Ids(df) |-> RowOf(df, i).Capacity],
               {i \in sel : ActiveAt(st[i], RowOf(df, i).LeadTime, t)}) <= max_capacity

\* Minimize(sum(x[rid] * int(round(CTA))))
cp_sat_objective(df, sel) ==
    SumSet([i \in Ids(df) |-> PyRound(RowOf(df, i).CTA)], sel)

cp_sat_rows(df, a) ==
    LET chosen == SelectSeq(df, LAMBDA r : r.ID \in a.selected)
    IN  [k \in DOMAIN chosen |->
            [ID |-> chosen[k].ID,
             Start_Day |-> a.start[chosen[k].ID],
             End_Day |-> a.start[chosen[k].ID] + chosen[k].LeadTime,
             Cost |-> chosen[k].CTA,
             Reduction |-> chosen[k].Score - chosen[k].Res_Score,
             Capacity |-> chosen[k].Capacity]]

\* the values solve_with_cp_sat may return: None, or a frame of rows
solve_with_cp_sat(df, dl, max_capacity, target) ==
    LET SelectionOk(sel) == cp_sat_closed(df, sel) /\ cp_sat_value_ok(df, target, sel)
        PlacementOk(sel, st) == /\ cp_sat_interval_ok(df, dl, sel, st)
                                /\ cp_sat_precedence_ok(df, sel, st)
                                /\ cp_sat_cumulative_ok(df, dl, max_capacity, sel, st)
        satisfying ==
            UNION {{[selected |-> sel, start |-> st] :
                       st \in {p \in Placements(sel, dl) : PlacementOk(sel, p)}} :
                   sel \in {c \in SUBSET Ids(df) : SelectionOk(c)}}
        found == OptimalAssignments(satisfying,
                                    [sel \in SUBSET Ids(df) |-> cp_sat_objective(df, sel)])
    IN  IF found = {} THEN {Absent} ELSE {Frame(cp_sat_rows(df, a)) : a \in found}

(***************************************************************************)
(* solve_with_pulp.  The binaries x[i][t] with sum_t x[i][t] = selected[i] *)
(* are the selection and, for a selected id, the one day t with            *)
(* x[i][t] = 1; the linear expression sum_t t * x[i][t] is that day, and 0 *)
(* for an id that is not selected.                                         *)
(***************************************************************************)
KeyError == "KeyError"

\* x[i][t] for t in range(deadline - duration + 1, deadline + 1): x[i] is a
\* dict keyed by 0..deadline, so a negative t raises KeyError
pulp_raises_key_error(df, dl) ==
    \E k \in DOMAIN df : dl - df[k].LeadTime + 1 < 0

pulp_start(sel, st, i) == IF i \in sel THEN st[i] ELSE 0

\* mutant: no start day is forbidden
pulp_deadline_ok_any_start(df, dl, sel, st) == \A i \in sel : st[i] \in 0..dl

\* x[i][t] == 0 for t in range(deadline - duration + 1, deadline + 1)
pulp_deadline_ok(df, dl, sel, st) ==
    \A i \in sel : st[i] \notin (dl - RowOf(df, i).LeadTime + 1)..dl

\* mutant: the reduction of a task is taken to be its whole score
pulp_value_ok_full_score(df, target, sel) ==
    TotalScore(df) - SumSet([i \in Ids(df) |-> RowOf(df, i).Score], sel) <= target

\* current_total - score_reduction <= target_score_max
pulp_value_ok(df, target, sel) ==
    TotalScore(df)
        - SumSet([i \in Ids(df) |-> RowOf(df, i).Score - RowOf(df, i).Res_Score], sel)
        <= target

\* selected[i] <= selected[pred]
pulp_closed(df, sel) ==
    \A k \in DOMAIN df : \A j \in DOMAIN df[k].Predecessors :
        df[k].ID \in sel => df[k].Predecessors[j] \in sel

\* mutant: the relaxation is the deadline, not twice the deadline
pulp_big_m_deadline(dl) == dl

\* big_m = deadline * 2
pulp_big_m(dl) == dl * 2

\* start_i >= start_pred + pred_duration - big_m * (1 - selected[i]), for
\* one task i and one of its predecessors
pulp_precedence_row(df, dl, sel, st, i, pred) ==
    LET selected_i == IF i \in sel THEN 1 ELSE 0
    IN  pulp_start(sel, st, i)
            >= pulp_start(sel, st, pred) + RowOf(df, pred).LeadTime
               - pulp_big_m(dl) * (1 - selected_i)

\* mutant: the duration of the predecessor is left out of the inequality
pulp_precedence_ok_no_duration(df, dl, sel, st) ==
    \A k \in DOMAIN df : \A j \in DOMAIN df[k].Predecessors :
        LET i == df[k].ID
            pred == df[k].Predecessors[j]
            selected_i == IF i \in sel THEN 1 ELSE 0
        IN  pulp_start(sel, st, i)
                >= pulp_start(sel, st, pred) - pulp_big_m(dl) * (1 - selected_i)

\* the inequality of every task and every one of its predecessors
pulp_precedence_ok(df, dl, sel, st) ==
    \A k \in DOMAIN df : \A j \in DOMAIN df[k].Predecessors :
        pulp_precedence_row(df, dl, sel, st, df[k].ID, df[k].Predecessors[j])

\* mutant: the window holds only day t, so a task counts on its start day alone
pulp_capacity_ok_start_day_only(df, dl, max_capacity, sel, st) ==
    \A t \in 0..dl :
        SumSet([i \in Ids(df) |-> RowOf(df, i).Capacity], {i \in sel : st[i] = t})
            <= max_capacity

\* for t in times: sum_i cap_i * sum(x[i][k] for k in range(max(0, t - duration + 1), t + 1))
pulp_capacity_ok(df, dl, max_capacity, sel, st) ==
    \A t \in 0..dl :
        SumSet([i \in Ids(df) |-> RowOf(df, i).Capacity],
               {i \in sel : st[i] \in Max(0, t - RowOf(df, i).LeadTime + 1)..t})
            <= max_capacity

\* lpSum(selected[i] * cta_by_id[i])
pulp_objective(df, sel) == SumSet([i \in Ids(df) |-> RowOf(df, i).CTA], sel)

pulp_rows(df, a) ==
    LET chosen == SelectSeq(df, LAMBDA r : r.ID \in a.selected)
    IN  [k \in DOMAIN chosen |->
            [ID |-> chosen[k].ID,
             Start_Day |-> a.start[chosen[k].ID],
             End_Day |-> a.start[chosen[k].ID] + chosen[k].LeadTime,
             Cost |-> chosen[k].CTA,
             Reduction |-> chosen[k].Score - chosen[k].Res_Score,
             Capacity |-> chosen[k].Capacity]]

\* the values solve_with_pulp may return (None or a frame), or KeyError when
\* building the constraints raises
solve_with_pulp(df, dl, max_capacity, target) ==
    IF pulp_raises_key_error(df, dl) THEN {Raises(KeyError)}
    ELSE
    LET SelectionOk(sel) == pulp_closed(df, sel) /\ pulp_value_ok(df, target, sel)
        PlacementOk(sel, st) == /\ pulp_deadline_ok(df, dl, sel, st)
                                /\ pulp_precedence_ok(df, dl, sel, st)
                                /\ pulp_capacity_ok(df, dl, max_capacity, sel, st)
        satisfying ==
            UNION {{[selected |-> sel, start |-> st] :
                       st \in {p \in Placements(sel, dl) : PlacementOk(sel, p)}} :
                   sel \in {c \in SUBSET Ids(df) : SelectionOk(c)}}
        found == OptimalAssignments(satisfying,
                                    [sel \in SUBSET Ids(df) |-> pulp_objective(df, sel)])
    IN  IF found = {} THEN {Absent} ELSE {Frame(pulp_rows(df, a)) : a \in found}

(***************************************************************************)
(* analyze_risk_plan                                                       *)
(***************************************************************************)
\* the parameter checks at the head of analyze_risk_plan
config_error(dl, cap, ceiling, ratio) ==
    IF dl <= 0 THEN "deadline must be greater than 0."
    ELSE IF cap <= 0 THEN "team_capacity must be greater than 0."
    ELSE IF ceiling = None /\ ~(0 <= ratio.num /\ ratio.num <= ratio.den)
         THEN "target_remaining_ratio must be between 0 and 1."
    ELSE "ok"

\* target_max: the explicit ceiling, or total_original * target_remaining_ratio
target_max_of(df, ceiling, ratio) ==
    IF ceiling # None THEN Get(ceiling)
    ELSE (TotalScore(df) * ratio.num) \div ratio.den

\* pd.DataFrame(rows) of an empty list of rows has no columns, and
\* sort_values(["Start_Day", "ID"]) looks the columns up before it sorts:
\* KeyError for a solution that selects no task
sort_values_raises(rows) == Len(rows) = 0

\* sort_values(["Start_Day", "ID"]).reset_index(drop=True)
RowBefore(a, b) == a.Start_Day < b.Start_Day \/ (a.Start_Day = b.Start_Day /\ a.ID <= b.ID)

\* mutant: the rows are left in the order of the dataset
sort_values_dataset_order(rows) == rows

RECURSIVE sort_values(_)
sort_values(rows) ==
    IF Len(rows) = 0 THEN <<>>
    ELSE LET k == CHOOSE i \in DOMAIN rows : \A j \in DOMAIN rows : RowBefore(rows[i], rows[j])
             rest == [j \in 1..(Len(rows) - 1) |-> IF j < k THEN rows[j] ELSE rows[j + 1]]
         IN  <<rows[k]>> \o sort_values(rest)

\* groupby("Start_Day")["Cost"].sum().sort_values("Start_Day")
RECURSIVE timeline_of(_, _)
timeline_of(schedule, days) ==
    IF days = {} THEN <<>>
    ELSE LET d == MinOf(days)
             cost == SumSeq([k \in DOMAIN schedule |->
                                IF schedule[k].Start_Day = d THEN schedule[k].Cost ELSE 0],
                            Len(schedule))
         IN  <<[Start_Day |-> d, Cost |-> cost]>> \o timeline_of(schedule, days \ {d})

\* mutant: one timeline entry per schedule row, without grouping
budget_timeline_per_row(schedule) ==
    [k \in DOMAIN schedule |->
        [Start_Day |-> schedule[k].Start_Day, Cost |-> schedule[k].Cost]]

budget_timeline(schedule) ==
    IF Len(schedule) = 0 THEN <<>>
    ELSE timeline_of(schedule, {schedule[k].Start_Day : k \in DOMAIN schedule})

\* mutant: an infeasible summary that reports a total cost of 0
InfeasibleSummary_zero_cost(name, df, dl, cap, target) ==
    [solver |-> name, feasible |-> FALSE, deadline |-> dl, team_capacity |-> cap,
     num_risks |-> Len(df), selected_count |-> 0,
     total_original_score |-> TotalScore(df), target_score_max |-> target,
     achieved_score |-> None, achieved_reduction |-> None,
     achieved_reduction_pct |-> None, total_cost |-> Some(0),
     schedule |-> <<>>, budget_timeline |-> <<>>]

InfeasibleSummary(name, df, dl, cap, target) ==
    [solver |-> name, feasible |-> FALSE, deadline |-> dl, team_capacity |-> cap,
     num_risks |-> Len(df), selected_count |-> 0,
     total_original_score |-> TotalScore(df), target_score_max |-> target,
     achieved_score |-> None, achieved_reduction |-> None,
     achieved_reduction_pct |-> None, total_cost |-> None,
     schedule |-> <<>>, budget_timeline |-> <<>>]

\* achieved_reduction_pct is the quotient num / den, kept as the pair
FeasibleSummary(name, df, dl, cap, target, rows) ==
    LET schedule == sort_values(rows)
        total_original == TotalScore(df)
        total_reduction == SumSeq([k \in DOMAIN schedule |-> schedule[k].Reduction],
                                  Len(schedule))
        total_cost == SumSeq([k \in DOMAIN schedule |-> schedule[k].Cost], Len(schedule))
    IN  [solver |-> name, feasible |-> TRUE, deadline |-> dl, team_capacity |-> cap,
         num_risks |-> Len(df), selected_count |-> Len(schedule),
         total_original_score |-> total_original, target_score_max |-> target,
         achieved_score |-> Some(total_original - total_reduction),
         achieved_reduction |-> Some(total_reduction),
         achieved_reduction_pct |->
             Some(IF total_original # 0
                  THEN [num |-> total_reduction * 100, den |-> total_original]
                  ELSE [num |-> 0, den |-> 1]),
         total_cost |-> Some(total_cost),
         schedule |-> schedule, budget_timeline |-> budget_timeline(schedule)]

Raise(e) ==
    /\ pc' = "raised"
    /\ raised' = e
    /\ UNCHANGED <<risks, risks_is_none, num_records, deadline, team_capacity,
                   target_score_max, target_remaining_ratio, outcome>>
    /\ UNCHANGED outside_engine

Return(summary) ==
    /\ pc' = "done"
    /\ outcome' = summary
    /\ UNCHANGED <<risks, risks_is_none, num_records, deadline, team_capacity,
                   target_score_max, target_remaining_ratio, raised>>
    /\ UNCHANGED outside_engine

\* what the dispatch on the solver name yields
Dispatch(name, df, dl, cap, target) ==
    IF name = "cp-sat" THEN solve_with_cp_sat(df, dl, cap, target)
    ELSE IF name = "pulp" THEN solve_with_pulp(df, dl, cap, target)
    ELSE {Raises("Unsupported solver")}

\* how a call of analyze_risk_plan ends: an exception, or a returned summary
Raised(e) == [kind |-> "raise", error |-> e, value |-> None]
Returned(summary) == [kind |-> "return", error |-> "none", value |-> Some(summary)]

\* one record of BASE_SAMPLE_DATA, scores and costs in units of 1/Scale
SampleRecord(id, score, res, cta, lead, cap, preds) ==
    [ID |-> id, Score |-> score * Scale, Res_Score |-> res * Scale, CTA |-> cta * Scale,
     LeadTime |-> lead, Capacity |-> cap, Predecessors |-> preds]

BASE_SAMPLE_DATA ==
    << SampleRecord(1, 25, 5, 5000, 3, 2, <<>>),
       SampleRecord(2, 20, 4, 3000, 2, 1, <<1>>),
       SampleRecord(3, 30, 10, 8000, 4, 2, <<>>),
       SampleRecord(4, 15, 2, 2000, 2, 1, <<2>>),
       SampleRecord(5, 40, 5, 10000, 5, 3, <<3>>),
       SampleRecord(6, 10, 2, 1500, 2, 1, <<>>),
       SampleRecord(7, 50, 10, 12000, 6, 3, <<5>>),
       SampleRecord(8, 12, 6, 1000, 1, 1, <<6>>),
       SampleRecord(9, 35, 8, 7500, 4, 2, <<>>),
       SampleRecord(10, 18, 3, 2500, 3, 1, <<9>>),
       SampleRecord(11, 22, 5, 4000, 3, 2, <<8>>),
       SampleRecord(12, 28, 7, 6000, 4, 2, <<4>>),
       SampleRecord(13, 14, 2, 1800, 2, 1, <<>>),
       SampleRecord(14, 45, 9, 11000, 5, 3, <<13>>),
       SampleRecord(15, 16, 4, 2200, 2, 1, <<14>>) >>

\* mutant: the slice starts at the second record
get_sample_data_from_second(n) ==
    SubSeq(BASE_SAMPLE_DATA, 2, MinOf({n + 1, Len(BASE_SAMPLE_DATA)}))

\* BASE_SAMPLE_DATA[:num_records], for num_records > 0
get_sample_data(n) == SubSeq(BASE_SAMPLE_DATA, 1, MinOf({n, Len(BASE_SAMPLE_DATA)}))

\* how prepare_risk_data(risks, num_records) ends: get_sample_data is called
\* only when no records are passed, and raises for num_records <= 0; then
\* validate_risk_data raises or the frame is returned
prepare_risk_data_ends(is_none, given, n) ==
    IF is_none /\ n <= 0
    THEN [kind |-> "raise", error |-> "num_records must be greater than 0.", value |-> None]
    ELSE LET df == IF is_none THEN get_sample_data(n) ELSE given
             checked == validate_risk_data(df)
         IN  IF checked # "ok"
             THEN [kind |-> "raise", error |-> checked, value |-> None]
             ELSE [kind |-> "return", error |-> "none", value |-> Some(df)]

\* the ways analyze_risk_plan(risks, num_records=n, solver=name, ...) may end
analyze_risk_plan_ends(name, is_none, given, n, dl, cap, ceiling, ratio) ==
    LET cfg == config_error(dl, cap, ceiling, ratio)
        prepared == prepare_risk_data_ends(is_none, given, n)
    IN  IF cfg # "ok" THEN {Raised(cfg)}
        ELSE IF prepared.kind = "raise" THEN {Raised(prepared.error)}
        ELSE LET df == Get(prepared.value)
                 target == target_max_of(df, ceiling, ratio)
             IN  {IF res.kind = "raise" THEN Raised(res.error)
                  ELSE IF res.kind = "None"
                  THEN Returned(InfeasibleSummary(name, df, dl, cap, target))
                  ELSE IF sort_values_raises(res.rows) THEN Raised(KeyError)
                  ELSE Returned(FeasibleSummary(name, df, dl, cap, target, res.rows)) :
                     res \in Dispatch(name, df, dl, cap, target)}

analyze_risk_plan(name) ==
    /\ pc = "call"
    /\ solver' = name
    /\ \E end \in analyze_risk_plan_ends(name, risks_is_none, risks, num_records,
                                          deadline, team_capacity,
                                          target_score_max, target_remaining_ratio) :
           IF end.kind = "raise" THEN Raise(end.error) ELSE Return(Get(end.value))

AnalyzeCpSat == analyze_risk_plan("cp-sat")
AnalyzePulp == analyze_risk_plan("pulp")
AnalyzeUnsupported == analyze_risk_plan("glpk")

(***************************************************************************)
(* forge_mcp_server at startup: the module-level LAST_ANALYSIS is None and *)
(* no tool call has been made.                                             *)
(***************************************************************************)
MaxCalls == 3

CallIds == 1..MaxCalls

NoResult == [kind |-> "none", value |-> None]

IdleCall == [pc |-> "idle", tool |-> "none", req |-> 0, summary |-> None,
             result |-> NoResult, stored_at |-> 0]

ServerAtStartup ==
    /\ LAST_ANALYSIS = None
    /\ calls = [c \in CallIds |-> IdleCall]
    /\ store_count = 0

(***************************************************************************)
(* The requests checked.  Frames of up to MaxTasks rows with ids 1..n,     *)
(* each row one of a few risk profiles and at most one predecessor drawn   *)
(* from all ids of the frame (so self references and cycles occur and are  *)
(* rejected by validation); and the two-task worked example.               *)
(***************************************************************************)
Half == Scale \div 2

RiskProfiles ==
    { \* whole-numbered risk: reduction 1, cost 2
      [Score |-> 1 * Scale, Res_Score |-> 0, CTA |-> 2 * Scale,
       LeadTime |-> 1, Capacity |-> 1],
      \* fractional risk: reduction 1.5, cost 0.5
      [Score |-> 2 * Scale + Half, Res_Score |-> 1 * Scale, CTA |-> Half,
       LeadTime |-> 2, Capacity |-> 2],
      \* long risk: reduction 1, cost 1, three days
      [Score |-> 1 * Scale, Res_Score |-> 0, CTA |-> 1 * Scale,
       LeadTime |-> 3, Capacity |-> 1],
      \* small risk: reduction 0.5, cost 1.5
      [Score |-> Half, Res_Score |-> 0, CTA |-> 1 * Scale + Half,
       LeadTime |-> 1, Capacity |-> 2] }

PredecessorChoices(n) == {<<>>} \cup {<<j>> : j \in 1..n}

FramesOf(n) ==
    {[k \in 1..n |->
         [ID |-> k, Score |-> prof[k].Score, Res_Score |-> prof[k].Res_Score,
          CTA |-> prof[k].CTA, LeadTime |-> prof[k].LeadTime,
          Capacity |-> prof[k].Capacity, Predecessors |-> preds[k]]] :
        prof \in [1..n -> RiskProfiles], preds \in [1..n -> PredecessorChoices(n)]}

Frames == UNION {FramesOf(n) : n \in 1..MaxTasks}

Ceilings == {Some(c) : c \in 0..MaxCeiling} \cup {None}

\* the worked example: Task1 and Task2, deadline 10, capacity 2, ceiling 17.5
ExampleRisks ==
    << [ID |-> 1, Score |-> 20 * Scale, Res_Score |-> 5 * Scale, CTA |-> 100 * Scale,
        LeadTime |-> 2, Capacity |-> 1, Predecessors |-> <<>>],
       [ID |-> 2, Score |-> 15 * Scale, Res_Score |-> 5 * Scale, CTA |-> 80 * Scale,
        LeadTime |-> 1, Capacity |-> 1, Predecessors |-> <<1>>] >>

ExampleCeiling == 17 * Scale + Half

IsExample ==
    /\ risks = ExampleRisks
    /\ deadline = 10
    /\ team_capacity = 2
    /\ target_score_max = Some(ExampleCeiling)

\* a dataset whose scores are all 0, its one task cheap enough for cp-sat to
\* round the cost to 0
ZeroScoreRisks ==
    << [ID |-> 1, Score |-> 0, Res_Score |-> 0, CTA |-> Half,
        LeadTime |-> 1, Capacity |-> 1, Predecessors |-> <<>>] >>

Init ==
    /\ \/ /\ risks \in Frames \cup {ZeroScoreRisks}
          /\ deadline \in 1..MaxDeadline
          /\ team_capacity \in 1..MaxCapacity
          /\ target_score_max \in Ceilings
       \/ IsExample
    /\ risks_is_none = FALSE
    /\ num_records = 15
    /\ target_remaining_ratio = [num |-> 1, den |-> 1]
    /\ solver = "none"
    /\ pc = "call"
    /\ outcome = None
    /\ raised = "none"
    /\ ServerAtStartup
    /\ OthersAtRest

Next == AnalyzeCpSat \/ AnalyzePulp \/ AnalyzeUnsupported

Spec == Init /\ [][Next]_vars

(***************************************************************************)
(* Properties.                                                             *)
(***************************************************************************)
Strategies == {"cp-sat", "pulp"}

\* a call with a supported solver name on accepted parameters and an accepted
\* dataset has ended, by a return or by an exception
StrategyCallEnded ==
    /\ pc # "call"
    /\ solver \in Strategies
    /\ config_error(deadline, team_capacity, target_score_max, target_remaining_ratio) = "ok"
    /\ validate_risk_data(risks) = "ok"

FeasibleOutcome == pc = "done" /\ outcome.feasible

\* the row of the returned schedule for a task id
ScheduleIds == {outcome.schedule[k].ID : k \in DOMAIN outcome.schedule}
ScheduleRow(id) ==
    outcome.schedule[CHOOSE k \in DOMAIN outcome.schedule : outcome.schedule[k].ID = id]

\* demand of the returned tasks that are active on day t
ScheduleLoad(t) ==
    SumSeq([k \in DOMAIN outcome.schedule |->
               IF outcome.schedule[k].Start_Day <= t /\ t < outcome.schedule[k].End_Day
               THEN outcome.schedule[k].Capacity ELSE 0],
           Len(outcome.schedule))

\* C1: in every returned schedule, on every day t in [0, deadline], the demand
\* (Capacity) of the tasks with Start_Day <= t < End_Day sums to at most the
\* capacity parameter.
C1_CapacityRespected ==
    FeasibleOutcome => \A t \in 0..deadline : ScheduleLoad(t) <= team_capacity

\* C1 witness: a returned schedule of several tasks whose joint demand exceeds
\* the capacity, so that the limit forced them apart
C1_Witness ==
    /\ FeasibleOutcome
    /\ Len(outcome.schedule) >= 2
    /\ SumSeq([k \in DOMAIN outcome.schedule |-> outcome.schedule[k].Capacity],
              Len(outcome.schedule)) > team_capacity

\* C2: in every returned schedule, every predecessor p of a selected task i is
\* selected too and Start_Day[i] >= Start_Day[p] + duration[p].
C2_PrecedenceRespected ==
    FeasibleOutcome =>
        \A i \in ScheduleIds :
            \A j \in DOMAIN RowOf(risks, i).Predecessors :
                LET p == RowOf(risks, i).Predecessors[j]
                IN  /\ p \in ScheduleIds
                    /\ ScheduleRow(i).Start_Day
                           >= ScheduleRow(p).Start_Day + RowOf(risks, p).LeadTime

\* C2 witness: a returned schedule holding a task together with its predecessor
C2_Witness ==
    /\ FeasibleOutcome
    /\ \E i \in ScheduleIds : Len(RowOf(risks, i).Predecessors) > 0

(***************************************************************************)
(* The scheduling problem as the specification states it (section 4.2):    *)
(* the reference the returned schedules are compared with.  Sums are over  *)
(* the real-valued cost and reduction.  The text leaves two readings open, *)
(* and a reading is a record of both choices:                              *)
(*   slack   1: start + duration <= deadline + 1, as section 4.2 writes    *)
(*           the deadline fit; 0: start + duration <= deadline             *)
(*   ceiled  TRUE: sum(reduction) >= max(0, ceil(total - ceiling)), the    *)
(*           required reduction of section 4.2; FALSE: total -             *)
(*           sum(reduction) <= ceiling, the property of section 8          *)
(***************************************************************************)
StatedRequiredReduction(df, target) == Max(0, Ceil(TotalScore(df) - target))

StatedConstraints(df, dl, cap, target, reading, sel, st) ==
    \* precedence
    /\ \A i \in sel : \A j \in DOMAIN RowOf(df, i).Predecessors :
           LET p == RowOf(df, i).Predecessors[j]
           IN  p \in sel /\ st[i] >= st[p] + RowOf(df, p).LeadTime
    \* deadline fit
    /\ \A i \in sel : st[i] + RowOf(df, i).LeadTime <= dl + reading.slack
    \* capacity on every day of [0, deadline]
    /\ \A t \in 0..dl :
           SumSet([i \in Ids(df) |-> RowOf(df, i).Capacity],
                  {i \in sel : st[i] <= t /\ t < st[i] + RowOf(df, i).LeadTime}) <= cap
    \* value
    /\ LET reduction == SumSet([i \in Ids(df) |->
                                   RowOf(df, i).Score - RowOf(df, i).Res_Score], sel)
       IN  IF reading.ceiled
           THEN reduction >= StatedRequiredReduction(df, target) * Scale
           ELSE TotalScore(df) - reduction <= target

StatedAssignments(df, dl, cap, target, reading) ==
    UNION {{[selected |-> sel, start |-> st] :
               st \in {p \in [sel -> 0..dl] :
                          StatedConstraints(df, dl, cap, target, reading, sel, p)}} :
           sel \in SUBSET Ids(df)}

RealCost(df, sel) == SumSet([i \in Ids(df) |-> RowOf(df, i).CTA], sel)

Readings == [slack : {0, 1}, ceiled : BOOLEAN]

\* the readings with the deadline fit as section 4.2 writes it
WrittenReadings == {r \in Readings : r.slack = 1}

\* the target ceiling of the request of this state
TargetHere == target_max_of(risks, target_score_max, target_remaining_ratio)

\* the assignments the specification allows for the request of this state
StatedHere(reading) ==
    StatedAssignments(risks, deadline, team_capacity, TargetHere, reading)

\* C3: every feasible outcome has achieved_score <= target_score_max, also for
\* scores and residual scores that are not integers.
C3_AchievedWithinCeiling ==
    FeasibleOutcome => Get(outcome.achieved_score) <= outcome.target_score_max

\* C4: the total real-valued cost of a returned schedule is the minimum of
\* sum(cost) over all selections and placements that satisfy the precedence,
\* deadline-fit, capacity and value constraints (under at least one reading of
\* the deadline fit and of the value constraint); stated for the returned
\* schedules that meet the ceiling.
C4_CostIsMinimal ==
    (FeasibleOutcome /\ Get(outcome.achieved_score) <= outcome.target_score_max) =>
        \E r \in Readings :
            /\ StatedHere(r) # {}
            /\ Get(outcome.total_cost)
                   = MinOf({RealCost(risks, a.selected) : a \in StatedHere(r)})

\* what the other strategy may return for the request of this state
OtherStrategyResults ==
    IF solver = "cp-sat"
    THEN solve_with_pulp(risks, deadline, team_capacity, TargetHere)
    ELSE solve_with_cp_sat(risks, deadline, team_capacity, TargetHere)

FrameCost(rows) == SumSeq([k \in DOMAIN rows |-> rows[k].Cost], Len(rows))

\* C5: on every validated instance the two strategies agree: both report
\* infeasible, or both return schedules of the same total cost.
C5_StrategiesAgree ==
    StrategyCallEnded =>
        /\ pc = "done"
        /\ \A r \in OtherStrategyResults :
               \/ r.kind = "None" /\ ~outcome.feasible
               \/ /\ r.kind = "frame"
                  /\ outcome.feasible
                  /\ FrameCost(r.rows) = Get(outcome.total_cost)

\* C6: with target_score_ceiling >= total_original_score the outcome, with
\* either strategy, is feasible with total_cost = 0 and
\* achieved_score = total_original_score.
C6_ZeroReductionIsFree ==
    (StrategyCallEnded /\ TargetHere >= TotalScore(risks)) =>
        /\ FeasibleOutcome
        /\ Get(outcome.total_cost) = 0
        /\ Get(outcome.achieved_score) = outcome.total_original_score

\* C7: a strategy reports infeasible if and only if no selection and placement
\* satisfies precedence, the deadline fit start + duration <= deadline + 1,
\* capacity and the value constraint: unsatisfiable under the weaker reading of
\* the value constraint implies infeasible, and satisfiable under the stronger
\* one implies a schedule.
C7_InfeasibleIffUnsatisfiable ==
    (StrategyCallEnded /\ pc = "done") =>
        /\ StatedHere([slack |-> 1, ceiled |-> FALSE]) = {} => ~outcome.feasible
        /\ StatedHere([slack |-> 1, ceiled |-> TRUE]) # {} => outcome.feasible

\* C8: an unsatisfiable instance makes analyze_risk_plan return an outcome
\* with feasible = false and never raise, with either strategy.
C8_UnsatisfiableIsReported ==
    (StrategyCallEnded /\ \A r \in WrittenReadings : StatedHere(r) = {}) =>
        (pc = "done" /\ ~outcome.feasible)

\* C9: the worked example (Task1, Task2, deadline 10, capacity 2, ceiling 17.5)
\* gives, with either strategy, feasible = true, selected_count = 2,
\* total_cost = 180 and achieved_score = 10.
C9_WorkedExampleOutcome ==
    (IsExample /\ pc # "call" /\ solver \in Strategies) =>
        /\ FeasibleOutcome
        /\ outcome.selected_count = 2
        /\ Get(outcome.total_cost) = 180 * Scale
        /\ Get(outcome.achieved_score) = 10 * Scale

\* C9 witness: the worked example has been analysed with the integer program
C9_Witness == IsExample /\ pc = "done" /\ solver = "pulp" /\ outcome.selected_count = 2

\* C10 as claimed: every schedule of the worked example places Task1 at start 0
\* with end 2 and Task2 at a start >= 2.
C10_Task1StartsAtZero ==
    (IsExample /\ FeasibleOutcome) =>
        /\ ScheduleIds = {1, 2}
        /\ ScheduleRow(1).Start_Day = 0
        /\ ScheduleRow(1).End_Day = 2
        /\ ScheduleRow(2).Start_Day >= 2

\* C10 as amended: every schedule of the worked example places Task1 at a start
\* s in [0, 7] with end s + 2, and Task2 at a start >= s + 2 (so >= 2) and <= 9.
C10_Task2AfterTask1 ==
    (IsExample /\ FeasibleOutcome) =>
        /\ ScheduleIds = {1, 2}
        /\ ScheduleRow(1).Start_Day \in 0..7
        /\ ScheduleRow(1).End_Day = ScheduleRow(1).Start_Day + 2
        /\ ScheduleRow(2).Start_Day >= ScheduleRow(1).End_Day
        /\ ScheduleRow(2).Start_Day \in 2..9

\* C10 witness: a schedule of the worked example in which Task1 starts after day 0
C10_Witness ==
    /\ IsExample
    /\ FeasibleOutcome
    /\ 1 \in ScheduleIds
    /\ ScheduleRow(1).Start_Day > 0

\* the relaxations of the request of this state by at most one day and one
\* unit of capacity, the request itself left out
Relaxations ==
    {q \in (deadline..(deadline + 1)) \X (team_capacity..(team_capacity + 1)) :
        q # <<deadline, team_capacity>>}

\* C11: if a strategy returns a schedule for (deadline, capacity), the same
\* strategy returns a schedule, neither infeasible nor an error, for every
\* (deadline', capacity') with deadline' >= deadline and capacity' >= capacity,
\* and the total cost it returns there is not higher.
C11_RelaxationIsMonotone ==
    (StrategyCallEnded /\ FeasibleOutcome) =>
        \A q \in Relaxations :
            \A r \in Dispatch(solver, risks, q[1], q[2], TargetHere) :
                /\ r.kind = "frame"
                /\ ~sort_values_raises(r.rows)
                /\ FrameCost(r.rows) <= Get(outcome.total_cost)

(***************************************************************************)
(* prepare_risk_data on arbitrary records: the datasets on which the       *)
(* validator is exercised.  Two families: rows whose fields are drawn from *)
(* profiles around the limits of each check, with ids that may repeat; and *)
(* rows with sound fields and distinct ids whose predecessor lists range   *)
(* over present, missing and own ids.                                      *)
(***************************************************************************)
FieldProfiles ==
    { [Score |-> 2, Res_Score |-> 1, CTA |-> 1, LeadTime |-> 1, Capacity |-> 1],
      [Score |-> 0, Res_Score |-> 0, CTA |-> 0, LeadTime |-> 1, Capacity |-> 1],
      [Score |-> 1, Res_Score |-> 1, CTA |-> 1, LeadTime |-> 0, Capacity |-> 1],
      [Score |-> 1, Res_Score |-> 1, CTA |-> 1, LeadTime |-> 1, Capacity |-> 0],
      [Score |-> 1, Res_Score |-> 1, CTA |-> -1, LeadTime |-> 1, Capacity |-> 1],
      [Score |-> -1, Res_Score |-> -2, CTA |-> 1, LeadTime |-> 1, Capacity |-> 1],
      [Score |-> 1, Res_Score |-> -1, CTA |-> 1, LeadTime |-> 1, Capacity |-> 1],
      [Score |-> 1, Res_Score |-> 2, CTA |-> 1, LeadTime |-> 1, Capacity |-> 1] }

\* a frame of n rows with the given ids and field profiles, without predecessors
FieldFrame(n, ids, prof) ==
    [k \in 1..n |->
        [ID |-> ids[k], Score |-> prof[k].Score, Res_Score |-> prof[k].Res_Score,
         CTA |-> prof[k].CTA, LeadTime |-> prof[k].LeadTime,
         Capacity |-> prof[k].Capacity, Predecessors |-> <<>>]]

\* predecessor lists of at most two ids out of 1..n+1 (n + 1 is a missing id)
PredecessorLists(n) ==
    {<<>>} \cup {<<a>> : a \in 1..(n + 1)}
           \cup {<<q[1], q[2]>> : q \in {c \in (1..(n + 1)) \X (1..(n + 1)) : c[1] < c[2]}}

\* a frame of n sound rows with ids 1..n and the given predecessor lists
GraphFrame(n, preds) ==
    [k \in 1..n |->
        [ID |-> k, Score |-> Scale, Res_Score |-> 0, CTA |-> Scale, LeadTime |-> 1,
         Capacity |-> 1, Predecessors |-> preds[k]]]

\* the largest num_records of the calls that pass no records
MaxSampleRecords == 16

ValidateInit ==
    /\ \/ /\ risks_is_none = FALSE
          /\ num_records = 15
          /\ \/ risks = <<>>
             \/ \E n \in 1..MaxTasks :
                    \E ids \in [1..n -> 1..n], prof \in [1..n -> FieldProfiles] :
                        risks = FieldFrame(n, ids, prof)
             \/ \E n \in 1..(MaxTasks + 1) :
                    \E preds \in [1..n -> PredecessorLists(n)] :
                        risks = GraphFrame(n, preds)
       \/ /\ risks_is_none = TRUE
          /\ num_records \in 0..MaxSampleRecords
          /\ risks = <<>>
    /\ deadline = 1
    /\ team_capacity = 1
    /\ target_score_max = None
    /\ target_remaining_ratio = [num |-> 1, den |-> 1]
    /\ solver = "none"
    /\ pc = "call"
    /\ outcome = None
    /\ raised = "none"
    /\ ServerAtStartup
    /\ OthersAtRest

\* prepare_risk_data(risks, num_records): it raises, or the frame is returned
prepare_risk_data ==
    /\ pc = "call"
    /\ UNCHANGED solver
    /\ LET prepared == prepare_risk_data_ends(risks_is_none, risks, num_records)
       IN  IF prepared.kind = "raise" THEN Raise(prepared.error)
           ELSE /\ pc' = "done"
                /\ UNCHANGED <<risks, risks_is_none, num_records, deadline,
                               team_capacity, target_score_max,
                               target_remaining_ratio, outcome, raised>>
                /\ UNCHANGED outside_engine

ValidateNext == prepare_risk_data

ValidateSpec == ValidateInit /\ [][ValidateNext]_vars

(***************************************************************************)
(* The well-formedness of a dataset as the specification states it, with   *)
(* a directed cycle defined by reachability along predecessor references.  *)
(***************************************************************************)
PredecessorsWithin(df, S) ==
    {p \in Ids(df) : \E k \in DOMAIN df :
        df[k].ID \in S /\ \E j \in DOMAIN df[k].Predecessors : df[k].Predecessors[j] = p}

RECURSIVE AncestorsOf(_, _)
AncestorsOf(df, S) ==
    LET T == S \cup PredecessorsWithin(df, S)
    IN  IF T = S THEN S ELSE AncestorsOf(df, T)

HasDirectedCycle(df) ==
    \E id \in Ids(df) : id \in AncestorsOf(df, PredecessorsWithin(df, {id}))

StatedWellFormed(df) ==
    /\ \A j, k \in DOMAIN df : j # k => df[j].ID # df[k].ID
    /\ \A k \in DOMAIN df :
           /\ df[k].LeadTime > 0 /\ df[k].Capacity > 0
           /\ df[k].CTA >= 0 /\ df[k].Score >= 0 /\ df[k].Res_Score >= 0
           /\ df[k].Res_Score <= df[k].Score
           /\ \A j \in DOMAIN df[k].Predecessors :
                  df[k].Predecessors[j] \in Ids(df) /\ df[k].Predecessors[j] # df[k].ID
    /\ ~HasDirectedCycle(df)

C13_EntriesWithinHorizon ==
    FeasibleOutcome =>
        \A k \in DOMAIN outcome.schedule :
            LET e == outcome.schedule[k]
                duration == RowOf(risks, e.ID).LeadTime
            IN  /\ e.Start_Day \in 0..deadline
                /\ e.End_Day = e.Start_Day + duration
                /\ e.Start_Day + duration <= deadline + 1

\* C13 witness: a returned schedule with an entry that starts after day 0 and
\* ends on the last day the strategies allow
C13_Witness ==
    /\ FeasibleOutcome
    /\ \E k \in DOMAIN outcome.schedule :
           outcome.schedule[k].Start_Day > 0 /\ outcome.schedule[k].End_Day = deadline

\* C14: an outcome with feasible = false has selected_count = 0, the four
\* optional fields null and both collections empty; an outcome with
\* feasible = true has the four optional fields non-null and selected_count
\* equal to the number of schedule entries, which is at most the task count.
C14_OutcomeShape ==
    pc = "done" =>
        IF outcome.feasible
        THEN /\ outcome.achieved_score # None
             /\ outcome.achieved_reduction # None
             /\ outcome.achieved_reduction_pct # None
             /\ outcome.total_cost # None
             /\ outcome.selected_count = Len(outcome.schedule)
             /\ outcome.selected_count <= outcome.num_risks
             /\ outcome.num_risks = Len(risks)
        ELSE /\ outcome.selected_count = 0
             /\ outcome.achieved_score = None
             /\ outcome.achieved_reduction = None
             /\ outcome.achieved_reduction_pct = None
             /\ outcome.total_cost = None
             /\ outcome.schedule = <<>>
             /\ outcome.budget_timeline = <<>>

\* C14 witness: an infeasible outcome for a dataset of several tasks
C14_Witness == pc = "done" /\ ~outcome.feasible /\ outcome.num_risks >= 2

\* C15: the schedule of every feasible outcome is in ascending (Start_Day, ID)
\* order, holds each task id at most once, and each entry's Reduction is the
\* dataset's Score - Res_Score and its Cost the dataset's CTA for that id.
C15_ScheduleOrderedAndCanonical ==
    FeasibleOutcome =>
        LET sch == outcome.schedule
        IN  /\ \A j, k \in DOMAIN sch :
                   j < k => \/ sch[j].Start_Day < sch[k].Start_Day
                            \/ sch[j].Start_Day = sch[k].Start_Day /\ sch[j].ID < sch[k].ID
            /\ \A j, k \in DOMAIN sch : j # k => sch[j].ID # sch[k].ID
            /\ \A k \in DOMAIN sch :
                   /\ sch[k].ID \in Ids(risks)
                   /\ sch[k].Reduction
                          = RowOf(risks, sch[k].ID).Score - RowOf(risks, sch[k].ID).Res_Score
                   /\ sch[k].Cost = RowOf(risks, sch[k].ID).CTA

\* C15 witness: a returned schedule whose first entry is a later row of the
\* dataset than its second entry
C15_Witness ==
    /\ FeasibleOutcome
    /\ Len(outcome.schedule) >= 2
    /\ outcome.schedule[1].ID > outcome.schedule[2].ID

\* C16: for every feasible outcome budget_timeline has exactly one entry per
\* distinct Start_Day of the schedule, each entry's Cost is the sum of Cost
\* over the schedule entries of that Start_Day, the days are strictly
\* ascending and the Cost values sum to total_cost; for an empty schedule the
\* timeline is empty.
C16_TimelineGroupsByDay ==
    pc = "done" =>
        LET sch == outcome.schedule
            tl == outcome.budget_timeline
            days == {sch[k].Start_Day : k \in DOMAIN sch}
        IN  /\ Len(tl) = Cardinality(days)
            /\ \A k \in DOMAIN tl :
                   /\ tl[k].Start_Day \in days
                   /\ tl[k].Cost = SumSeq([j \in DOMAIN sch |->
                                              IF sch[j].Start_Day = tl[k].Start_Day
                                              THEN sch[j].Cost ELSE 0], Len(sch))
            /\ \A j, k \in DOMAIN tl : j < k => tl[j].Start_Day < tl[k].Start_Day
            /\ outcome.feasible =>
                   SumSeq([k \in DOMAIN tl |-> tl[k].Cost], Len(tl)) = Get(outcome.total_cost)
            /\ sch = <<>> => tl = <<>>
            /\ budget_timeline(<<>>) = <<>>

\* C16 witness: a returned schedule in which two tasks start on the same day,
\* so that the timeline has fewer entries than the schedule
C16_Witness ==
    /\ FeasibleOutcome
    /\ Len(outcome.schedule) >= 2
    /\ outcome.schedule[1].Start_Day = outcome.schedule[2].Start_Day
    /\ Len(outcome.budget_timeline) < Len(outcome.schedule)

\* C17: for every feasible outcome achieved_reduction is the sum of Reduction
\* over the schedule, achieved_score = total_original_score -
\* achieved_reduction, total_cost is the sum of Cost over the schedule, and
\* achieved_reduction_pct = achieved_reduction / total_original_score * 100, or
\* 0 when total_original_score = 0, in which case a feasible outcome is still
\* returned.
C17_SummaryArithmetic ==
    /\ FeasibleOutcome =>
           LET sch == outcome.schedule
               reduction == SumSeq([k \in DOMAIN sch |-> sch[k].Reduction], Len(sch))
               pct == Get(outcome.achieved_reduction_pct)
           IN  /\ Get(outcome.achieved_reduction) = reduction
               /\ Get(outcome.achieved_score) = outcome.total_original_score - reduction
               /\ Get(outcome.total_cost) = SumSeq([k \in DOMAIN sch |-> sch[k].Cost], Len(sch))
               /\ outcome.total_original_score = TotalScore(risks)
               /\ IF outcome.total_original_score = 0
                  THEN pct.num = 0
                  ELSE pct.num * outcome.total_original_score = reduction * 100 * pct.den
    /\ (StrategyCallEnded /\ TotalScore(risks) = 0 /\ TargetHere >= 0) => FeasibleOutcome

(***************************************************************************)
(* forge_mcp_server: the tools, as steps of concurrent tool calls.  A call *)
(* is made with a tool and its arguments and then runs to its return or    *)
(* its exception; the calls interleave at the reads and writes of          *)
(* LAST_ANALYSIS.  Assigning the global replaces a reference in one step.  *)
(* A call keeps its tool and arguments only as long as it needs them.      *)
(***************************************************************************)
AnalysisTools == {"forge_optimize_schedule", "forge_visual_report"}

OneTask(profile, preds) ==
    << [ID |-> 1, Score |-> profile.Score, Res_Score |-> profile.Res_Score,
        CTA |-> profile.CTA, LeadTime |-> profile.LeadTime,
        Capacity |-> profile.Capacity, Predecessors |-> preds] >>

WholeRisk == [Score |-> 1 * Scale, Res_Score |-> 0, CTA |-> 2 * Scale,
              LeadTime |-> 1, Capacity |-> 1]

LongRisk == [Score |-> 1 * Scale, Res_Score |-> 0, CTA |-> 1 * Scale,
             LeadTime |-> 3, Capacity |-> 1]

\* the arguments of the analysis calls made: a request with a schedule, one
\* that is infeasible, one with a rejected deadline, one with a rejected dataset
ServerRequests ==
    << [risks |-> OneTask(WholeRisk, <<>>), solver |-> "cp-sat", deadline |-> 1,
        team_capacity |-> 1, target_score_max |-> Some(0)],
       [risks |-> OneTask(LongRisk, <<>>), solver |-> "pulp", deadline |-> 2,
        team_capacity |-> 1, target_score_max |-> Some(0)],
       [risks |-> OneTask(WholeRisk, <<>>), solver |-> "cp-sat", deadline |-> 0,
        team_capacity |-> 1, target_score_max |-> Some(0)],
       [risks |-> OneTask(WholeRisk, <<1>>), solver |-> "cp-sat", deadline |-> 1,
        team_capacity |-> 1, target_score_max |-> Some(0)] >>

\* analyze_risk_plan(...) on the arguments of a request
RequestEnds(k) ==
    LET q == ServerRequests[k]
    IN  analyze_risk_plan_ends(q.solver, FALSE, q.risks, 15, q.deadline, q.team_capacity,
                               q.target_score_max, [num |-> 1, den |-> 2])

\* a client calls a tool; call ids are given out in the order of arrival
ToolCall(c, tool, k) ==
    /\ calls[c].pc = "idle"
    /\ \A d \in CallIds : d < c => calls[d].pc # "idle"
    /\ calls' = [calls EXCEPT ![c] = [IdleCall EXCEPT !.pc = "running", !.tool = tool,
                                                      !.req = k]]
    /\ UNCHANGED <<LAST_ANALYSIS, store_count>>
    /\ UNCHANGED outside_server

CallAnalysisTool(c) ==
    \E tool \in AnalysisTools : \E k \in DOMAIN ServerRequests : ToolCall(c, tool, k)

CallLastRun(c) == ToolCall(c, "forge_visual_report_from_last_run", 0)

\* the tools that never touch LAST_ANALYSIS, each called with arguments that
\* are accepted and with arguments that are rejected
CallOtherTool(c) ==
    \/ \E k \in {k \in DOMAIN ServerRequests : ServerRequests[k].deadline = 1} :
           ToolCall(c, "forge_get_risk_dataset", k)
    \/ \E k \in {k \in DOMAIN ServerRequests : ServerRequests[k].team_capacity = 1
                                                /\ ServerRequests[k].solver = "cp-sat"
                                                /\ ServerRequests[k].risks[1].Predecessors = <<>>} :
           ToolCall(c, "forge_benchmark_solvers", k)

\* mutant: a failed analysis call clears the slot
SlotAfterFailure_cleared(slot) == None

\* the slot after an analysis call ended with an exception: _run_analysis is
\* left at line 42, before _store_last
SlotAfterFailure(slot) == slot

\* _run_analysis, first half: summary = analyze_risk_plan(...)
run_analysis(c) ==
    /\ UNCHANGED outside_server
    /\ calls[c].pc = "running"
    /\ calls[c].tool \in AnalysisTools
    /\ \E end \in RequestEnds(calls[c].req) :
           IF end.kind = "raise"
           THEN /\ calls' = [calls EXCEPT ![c].pc = "raised", ![c].req = 0, ![c].tool = "none",
                                          ![c].result = [kind |-> end.error, value |-> None]]
                /\ LAST_ANALYSIS' = SlotAfterFailure(LAST_ANALYSIS)
           ELSE /\ calls' = [calls EXCEPT ![c].pc = "computed", ![c].req = 0, ![c].tool = "none",
                                          ![c].summary = end.value]
                /\ UNCHANGED LAST_ANALYSIS
    /\ UNCHANGED store_count

\* mutant: only a summary with a schedule replaces the slot
Stored_feasible_only(slot, summary) == IF summary.feasible THEN Some(summary) ELSE slot

\* mutant: the fields are copied into the summary already in the slot one by
\* one, and the copy is seen before the solver field was written
Stored_field_by_field(slot, summary) ==
    IF slot = None THEN Some(summary)
    ELSE Some([summary EXCEPT !.solver = Get(slot).solver])

\* the value of LAST_ANALYSIS after LAST_ANALYSIS = summary
Stored(slot, summary) == Some(summary)

\* _run_analysis, second half: return _store_last(summary); the tool returns
\* the dict or the report of that summary
store_last(c) ==
    /\ UNCHANGED outside_server
    /\ calls[c].pc = "computed"
    /\ LAST_ANALYSIS' = Stored(LAST_ANALYSIS, Get(calls[c].summary))
    /\ store_count' = store_count + 1
    /\ calls' = [calls EXCEPT ![c].pc = "returned",
                              ![c].stored_at = store_count + 1,
                              ![c].result = [kind |-> "summary", value |-> calls[c].summary]]

NoPreviousAnalysis == [kind |-> "No previous analysis found.", value |-> None]

\* forge_visual_report_from_last_run: if LAST_ANALYSIS is None: return the message
last_run_check(c) ==
    /\ UNCHANGED outside_server
    /\ calls[c].pc = "running"
    /\ calls[c].tool = "forge_visual_report_from_last_run"
    /\ calls' = IF LAST_ANALYSIS = None
                THEN [calls EXCEPT ![c].pc = "returned", ![c].tool = "none",
                                   ![c].result = NoPreviousAnalysis]
                ELSE [calls EXCEPT ![c].pc = "checked"]
    /\ UNCHANGED <<LAST_ANALYSIS, store_count>>

\* forge_visual_report_from_last_run: return build_visual_report_markdown(LAST_ANALYSIS)
last_run_report(c) ==
    /\ UNCHANGED outside_server
    /\ calls[c].pc = "checked"
    /\ calls' = [calls EXCEPT ![c].pc = "returned", ![c].tool = "none",
                              ![c].result = [kind |-> "report", value |-> LAST_ANALYSIS]]
    /\ UNCHANGED <<LAST_ANALYSIS, store_count>>

\* forge_get_risk_dataset: prepare_risk_data and a dict of its totals
forge_get_risk_dataset(c) ==
    /\ UNCHANGED outside_server
    /\ calls[c].pc = "running"
    /\ calls[c].tool = "forge_get_risk_dataset"
    /\ LET checked == validate_risk_data(ServerRequests[calls[c].req].risks)
       IN  calls' = IF checked # "ok"
                    THEN [calls EXCEPT ![c].pc = "raised", ![c].req = 0, ![c].tool = "none",
                                       ![c].result = [kind |-> checked, value |-> None]]
                    ELSE [calls EXCEPT ![c].pc = "returned", ![c].req = 0, ![c].tool = "none",
                                       ![c].result = [kind |-> "dataset", value |-> None]]
    /\ UNCHANGED <<LAST_ANALYSIS, store_count>>

\* forge_benchmark_solvers: times both strategies on the sample data; the
\* iterations argument is the deadline of the request here, and must be > 0
forge_benchmark_solvers(c) ==
    /\ UNCHANGED outside_server
    /\ calls[c].pc = "running"
    /\ calls[c].tool = "forge_benchmark_solvers"
    /\ calls' = IF ServerRequests[calls[c].req].deadline <= 0
                THEN [calls EXCEPT ![c].pc = "raised", ![c].req = 0, ![c].tool = "none",
                                   ![c].result = [kind |-> "iterations must be greater than 0.",
                                                  value |-> None]]
                ELSE [calls EXCEPT ![c].pc = "returned", ![c].req = 0, ![c].tool = "none",
                                   ![c].result = [kind |-> "timings", value |-> None]]
    /\ UNCHANGED <<LAST_ANALYSIS, store_count>>

ServerInit ==
    /\ risks = <<>>
    /\ deadline = 1
    /\ team_capacity = 1
    /\ target_score_max = None
    /\ risks_is_none = FALSE
    /\ num_records = 15
    /\ target_remaining_ratio = [num |-> 1, den |-> 2]
    /\ solver = "none"
    /\ pc = "call"
    /\ outcome = None
    /\ raised = "none"
    /\ ServerAtStartup
    /\ OthersAtRest

ServerNext ==
    \E c \in CallIds :
        \/ CallAnalysisTool(c)
        \/ CallLastRun(c)
        \/ CallOtherTool(c)
        \/ run_analysis(c)
        \/ store_last(c)
        \/ last_run_check(c)
        \/ last_run_report(c)
        \/ forge_get_risk_dataset(c)
        \/ forge_benchmark_solvers(c)

ServerSpec == ServerInit /\ [][ServerNext]_vars

(***************************************************************************)
(* Properties of the last-outcome slot.                                    *)
(***************************************************************************)
\* the calls whose summary was stored, and the one stored last
StoringCalls == {c \in CallIds : calls[c].stored_at > 0}

LastStoringCall == CHOOSE c \in StoringCalls : calls[c].stored_at = store_count

\* the summaries analyze_risk_plan returns for the requests made
CompleteOutcomes ==
    UNION {{Get(e.value) : e \in {x \in RequestEnds(k) : x.kind = "return"}} :
           k \in DOMAIN ServerRequests}

AllCallsEnded == \A c \in CallIds : calls[c].pc \in {"returned", "raised"}

\* C18: the slot is empty at startup; while it is empty the retrieve-last
\* operation returns the fixed 'no previous analysis' message; after any
\* sequence of analysis calls (optimize or visual report, feasible or
\* infeasible outcome) the slot holds the outcome of the most recently
\* completed successful call; and once non-empty it never becomes empty again.
C18_SlotHoldsLatestOutcome ==
    /\ [](IF store_count = 0
          THEN LAST_ANALYSIS = None
          ELSE LAST_ANALYSIS = calls[LastStoringCall].summary)
    /\ [][/\ LAST_ANALYSIS # None => LAST_ANALYSIS' # None
          /\ \A c \in CallIds :
                 (last_run_check(c) /\ LAST_ANALYSIS = None)
                     => calls'[c].result = NoPreviousAnalysis /\ calls'[c].pc = "returned"
          /\ \A c \in CallIds :
                 store_last(c) => LAST_ANALYSIS' = calls[c].summary]_vars

\* C18 witness: an infeasible outcome replaced a feasible one in the slot
C18_Witness ==
    /\ store_count >= 2
    /\ LAST_ANALYSIS # None
    /\ ~Get(LAST_ANALYSIS).feasible
    /\ \E c \in StoringCalls : calls[c].stored_at < store_count
                                /\ Get(calls[c].summary).feasible

\* C19: under any interleaving of analysis calls and retrieve-last calls a
\* reader of the slot observes the empty slot or one complete outcome produced
\* by a single analysis call, never a mixture or a partly built outcome, and
\* after all calls have finished the slot holds the outcome of the call whose
\* store happened last.
C19_ReadersSeeWholeOutcomes ==
    /\ LAST_ANALYSIS # None => Get(LAST_ANALYSIS) \in CompleteOutcomes
    /\ \A c \in CallIds :
           calls[c].result.kind = "report" =>
               /\ calls[c].result.value # None
               /\ Get(calls[c].result.value) \in CompleteOutcomes
               /\ \E d \in StoringCalls : calls[c].result.value = calls[d].summary
    /\ (AllCallsEnded /\ StoringCalls # {}) =>
           /\ Cardinality({c \in StoringCalls : calls[c].stored_at = store_count}) = 1
           /\ LAST_ANALYSIS = calls[LastStoringCall].summary

\* C19 witness: a reader has found the slot non-empty and has not yet read it
\* again, while another call is about to store a different outcome
C19_Witness ==
    /\ LAST_ANALYSIS # None
    /\ \E c, d \in CallIds :
           /\ calls[c].pc = "checked"
           /\ calls[d].pc = "computed"
           /\ calls[d].summary # LAST_ANALYSIS

\* C20: an analysis call that fails with a configuration or validation error
\* returns no outcome and leaves the slot as it was, and the dataset and
\* benchmark operations leave the slot unchanged.
C20_FailuresLeaveSlot ==
    /\ [](\A c \in CallIds :
              calls[c].pc = "raised" =>
                  /\ calls[c].summary = None
                  /\ calls[c].result.value = None
                  /\ calls[c].stored_at = 0)
    /\ [][\A c \in CallIds :
              /\ (calls[c].pc = "running" /\ calls'[c].pc = "raised")
                     => LAST_ANALYSIS' = LAST_ANALYSIS /\ store_count' = store_count
              /\ (forge_get_risk_dataset(c) \/ forge_benchmark_solvers(c))
                     => LAST_ANALYSIS' = LAST_ANALYSIS /\ store_count' = store_count]_vars

\* C20 witness: an analysis call was rejected for its deadline while the slot
\* held an outcome
C20_Witness ==
    /\ LAST_ANALYSIS # None
    /\ \E c \in CallIds :
           /\ calls[c].pc = "raised"
           /\ calls[c].result.kind = "deadline must be greater than 0."
           /\ \E d \in StoringCalls : d < c


(***************************************************************************)
(* The parameter checks of analyze_risk_plan: calls with and without       *)
(* records, with parameters on both sides of every limit.                  *)
(***************************************************************************)
MaxRecords == 2

\* target_remaining_ratio of -1/2, 0, 1/2, 1 and 3/2
Ratios == {[num |-> n, den |-> 2] : n \in -1..3}

\* the records a caller passes: a valid task, or one that precedes itself
GivenRisks == {OneTask(WholeRisk, <<>>), OneTask(WholeRisk, <<1>>)}

ConfigInit ==
    /\ risks_is_none \in BOOLEAN
    /\ risks \in (IF risks_is_none THEN {<<>>} ELSE GivenRisks)
    /\ num_records \in -1..MaxRecords
    /\ deadline \in -1..MaxDeadline
    /\ team_capacity \in -1..MaxCapacity
    /\ target_score_max \in {None, Some(Scale)}
    /\ target_remaining_ratio \in Ratios
    /\ solver = "none"
    /\ pc = "call"
    /\ outcome = None
    /\ raised = "none"
    /\ ServerAtStartup
    /\ OthersAtRest

ConfigSpec == ConfigInit /\ [][Next]_vars

\* the errors analyze_risk_plan and benchmark_solvers raise for their parameters
ConfigurationErrors ==
    {"iterations must be greater than 0.",
     "deadline must be greater than 0.", "team_capacity must be greater than 0.",
     "num_records must be greater than 0.",
     "target_remaining_ratio must be between 0 and 1.", "Unsupported solver"}

\* the errors validate_risk_data raises for the dataset
ValidationErrors ==
    {"empty", "duplicate_ids", "lead_time", "capacity", "cta", "negative_score",
     "residual_exceeds_score", "missing_predecessor", "self_predecessor", "cycle"}

RatioOutOfRange ==
    ~(0 <= target_remaining_ratio.num
        /\ target_remaining_ratio.num <= target_remaining_ratio.den)

\* the parameter faults the rule lists
StatedConfigFault ==
    \/ deadline <= 0
    \/ team_capacity <= 0
    \/ num_records <= 0
    \/ target_score_max = None /\ RatioOutOfRange
    \/ solver \notin Strategies

\* C21: analyze_risk_plan raises a configuration error, no solver having
\* run, when deadline <= 0, team_capacity <= 0, num_records <= 0 (records
\* passed or not), the ratio is outside [0,1] with no explicit ceiling, or
\* the solver name is unsupported (an invalid dataset may be reported
\* instead); a ratio outside [0,1] with an explicit ceiling is accepted.
C21_ConfigurationErrors ==
    pc # "call" =>
        /\ StatedConfigFault =>
               /\ pc = "raised"
               /\ raised \in ConfigurationErrors \cup ValidationErrors
        /\ (~StatedConfigFault /\ RatioOutOfRange) =>
               raised \notin ConfigurationErrors


(***************************************************************************)
(* benchmark_solvers: the parameter check, prepare_risk_data on the sample *)
(* data, then `iterations` rounds of both solvers, each call timed.        *)
(***************************************************************************)
MaxIterations == 2

\* the wall-clock durations a timed call may take, in clock ticks
Durations == 1..2

outside_benchmark ==
    <<engine_vars, server_vars, normalize_vars, cycle_vars, jira_vars, request_vars>>

BenchmarkInit ==
    /\ risks = <<>>
    /\ risks_is_none = TRUE
    /\ num_records \in 0..MaxRecords
    /\ deadline \in 0..MaxDeadline
    /\ team_capacity \in 0..MaxCapacity
    /\ target_score_max = None
    /\ target_remaining_ratio \in {[num |-> n, den |-> 2] : n \in {-1, 1, 3}}
    /\ solver = "none"
    /\ pc = "call"
    /\ outcome = None
    /\ raised = "none"
    /\ ServerAtStartup
    /\ NormalizeAtRest
    /\ CycleAtRest
    /\ JiraAtRest
    /\ RequestAtRest
    /\ iterations \in 0..MaxIterations
    /\ bench_pc = "call"
    /\ bench_df = None
    /\ invoked = <<>>
    /\ durations = [name \in Strategies |-> <<>>]
    /\ bench_summary = None
    /\ bench_raised = "none"

BenchmarkRaise(e) ==
    /\ bench_pc' = "raised"
    /\ bench_raised' = e
    /\ UNCHANGED <<iterations, bench_df, durations, bench_summary>>

\* the iterations check and prepare_risk_data(num_records=num_records)
benchmark_prepare ==
    /\ bench_pc = "call"
    /\ IF iterations <= 0
       THEN BenchmarkRaise("iterations must be greater than 0.") /\ UNCHANGED invoked
       ELSE LET prepared == prepare_risk_data_ends(TRUE, <<>>, num_records)
            IN  IF prepared.kind = "raise"
                THEN BenchmarkRaise(prepared.error) /\ UNCHANGED invoked
                ELSE /\ bench_pc' = "loop"
                     /\ bench_df' = prepared.value
                     /\ UNCHANGED <<iterations, invoked, durations, bench_summary,
                                    bench_raised>>
    /\ UNCHANGED outside_benchmark

\* the solver whose turn it is: cp-sat, then pulp, in every round
NextSolver == IF Len(durations["cp-sat"]) = Len(durations["pulp"]) THEN "cp-sat" ELSE "pulp"

\* target_max = float(df["Score"].sum()) * target_remaining_ratio
benchmark_target_max == target_max_of(Get(bench_df), None, target_remaining_ratio)

\* one timed call fn(df, deadline, team_capacity, target_max) of the loop
benchmark_solve ==
    /\ bench_pc = "loop"
    /\ Len(durations["pulp"]) < iterations
    /\ LET name == NextSolver
           call == [name |-> name, df |-> Get(bench_df), deadline |-> deadline,
                    max_capacity |-> team_capacity,
                    target_score_max |-> benchmark_target_max]
       IN  /\ invoked' = Append(invoked, call)
           /\ \E res \in Dispatch(name, call.df, call.deadline, call.max_capacity,
                                  call.target_score_max) :
                  IF res.kind = "raise" THEN BenchmarkRaise(res.error)
                  ELSE \E d \in Durations :
                           /\ durations' = [durations EXCEPT ![name] = Append(@, d)]
                           /\ UNCHANGED <<iterations, bench_pc, bench_df,
                                          bench_summary, bench_raised>>
    /\ UNCHANGED outside_benchmark

\* min_sec, max_sec and avg_sec = sum(values) / len(values) of one solver
timing_of(values) ==
    [min_sec |-> MinOf({values[k] : k \in DOMAIN values}),
     max_sec |-> CHOOSE v \in {values[k] : k \in DOMAIN values} :
                     \A k \in DOMAIN values : values[k] <= v,
     avg_sec |-> [num |-> SumSeq(values, Len(values)), den |-> Len(values)]]

\* the loop is over: the summary is built and returned
benchmark_return ==
    /\ bench_pc = "loop"
    /\ Len(durations["pulp"]) = iterations
    /\ bench_pc' = "done"
    /\ bench_summary' = Some([iterations |-> iterations,
                        results |-> [name \in Strategies |-> timing_of(durations[name])]])
    /\ UNCHANGED <<iterations, bench_df, invoked, durations, bench_raised>>
    /\ UNCHANGED outside_benchmark

BenchmarkNext == benchmark_prepare \/ benchmark_solve \/ benchmark_return

BenchmarkSpec == BenchmarkInit /\ [][BenchmarkNext]_vars

\* the parameter faults the rule lists for the benchmark
StatedBenchmarkFault ==
    \/ iterations <= 0
    \/ deadline <= 0
    \/ team_capacity <= 0
    \/ RatioOutOfRange

\* C22: benchmark_solvers raises a configuration error before any solve
\* attempt when iterations <= 0, deadline <= 0, team_capacity <= 0 or
\* target_remaining_ratio is outside [0,1].
C22_BenchmarkConfigurationErrors ==
    StatedBenchmarkFault =>
        /\ invoked = <<>>
        /\ bench_pc \in {"call", "raised"}
        /\ bench_pc = "raised" => bench_raised \in ConfigurationErrors


\* a benchmark call with accepted parameters has ended
BenchmarkEnded ==
    /\ iterations > 0
    /\ num_records > 0
    /\ ~StatedBenchmarkFault
    /\ bench_pc \in {"done", "raised"}

\* the invocations of one solver made so far
InvocationsOf(name) == {k \in DOMAIN invoked : invoked[k].name = name}

\* every invocation received the prepared dataset and the parameters of the call
SameArguments ==
    \A k \in DOMAIN invoked :
        /\ invoked[k].df = get_sample_data(num_records)
        /\ invoked[k].deadline = deadline
        /\ invoked[k].max_capacity = team_capacity
        /\ invoked[k].target_score_max = benchmark_target_max

\* min, max and avg of exactly `iterations` recorded durations, min <= avg <= max
TimingsOfAllRuns ==
    /\ bench_summary # None
    /\ \A name \in Strategies :
           LET t == Get(bench_summary).results[name]
               values == durations[name]
           IN  /\ Len(values) = iterations
               /\ t.avg_sec.den = iterations
               /\ t.avg_sec.num = SumSeq(values, Len(values))
               /\ \E k \in DOMAIN values : values[k] = t.min_sec
               /\ \E k \in DOMAIN values : values[k] = t.max_sec
               /\ \A k \in DOMAIN values : t.min_sec <= values[k] /\ values[k] <= t.max_sec
               /\ t.min_sec * t.avg_sec.den <= t.avg_sec.num
               /\ t.avg_sec.num <= t.max_sec * t.avg_sec.den

\* C26: benchmark_solvers with iterations = n > 0 invokes each of the two
\* strategies exactly n times, every invocation with the same dataset,
\* deadline, capacity and target, the dataset unchanged throughout; the
\* result holds min, max and avg over exactly n durations per strategy, with
\* min <= avg <= max.
C26_BenchmarkRunsEveryRound ==
    BenchmarkEnded =>
        /\ bench_pc = "done"
        /\ \A name \in Strategies : Cardinality(InvocationsOf(name)) = iterations
        /\ SameArguments
        /\ bench_df = Some(get_sample_data(num_records))
        /\ TimingsOfAllRuns


(***************************************************************************)
(* normalize_predecessors: the raw Predecessors value of a record is None, *)
(* a string, a list of integers, or something else that is not iterable.   *)
(* Strings are sequences of characters; json.loads, str.strip, str.split   *)
(* and int are modelled on them.                                           *)
(***************************************************************************)
MaxChars == 4

Digits == {"1", "2", "3"}

Alphabet == Digits \cup {",", " ", "[", "]", "x"}

DigitValue(c) == IF c = "1" THEN 1 ELSE IF c = "2" THEN 2 ELSE 3

\* the position of the first character at or after i that is not a space
RECURSIVE SkipSpaces(_, _)
SkipSpaces(s, i) == IF i <= Len(s) /\ s[i] = " " THEN SkipSpaces(s, i + 1) ELSE i

\* str.strip()
RECURSIVE rstrip(_)
rstrip(s) == IF Len(s) > 0 /\ s[Len(s)] = " " THEN rstrip(SubSeq(s, 1, Len(s) - 1)) ELSE s

strip(s) == rstrip(SubSeq(s, SkipSpaces(s, 1), Len(s)))

\* the position after the run of digits that starts at i
RECURSIVE DigitsEnd(_, _)
DigitsEnd(s, i) == IF i <= Len(s) /\ s[i] \in Digits THEN DigitsEnd(s, i + 1) ELSE i

\* the integer written by the digits s[i..j]
RECURSIVE Decimal(_, _, _)
Decimal(s, i, j) == IF j < i THEN 0 ELSE Decimal(s, i, j - 1) * 10 + DigitValue(s[j])

JsonInt(n) == [t |-> "int", n |-> n]
JsonList(items) == [t |-> "list", items |-> items]
JsonFail == [ok |-> FALSE]
JsonAt(v, next) == [ok |-> TRUE, val |-> v, next |-> next]

\* json's scanner: a value that starts at position i (whitespace skipped by
\* the caller), and the items of an array after its first value
RECURSIVE scan_once(_, _), scan_items(_, _, _)
scan_once(s, i) ==
    IF i > Len(s) THEN JsonFail
    ELSE IF s[i] \in Digits
    THEN LET j == DigitsEnd(s, i) IN JsonAt(JsonInt(Decimal(s, i, j - 1)), j)
    ELSE IF s[i] = "["
    THEN LET j == SkipSpaces(s, i + 1)
         IN  IF j <= Len(s) /\ s[j] = "]" THEN JsonAt(JsonList(<<>>), j + 1)
             ELSE scan_items(s, j, <<>>)
    ELSE JsonFail

scan_items(s, i, items) ==
    LET first == scan_once(s, i)
    IN  IF ~first.ok THEN JsonFail
        ELSE LET j == SkipSpaces(s, first.next)
                 sofar == Append(items, first.val)
             IN  IF j > Len(s) THEN JsonFail
                 ELSE IF s[j] = "]" THEN JsonAt(JsonList(sofar), j + 1)
                 ELSE IF s[j] = "," THEN scan_items(s, SkipSpaces(s, j + 1), sofar)
                 ELSE JsonFail

\* json.loads(s): the value, or JSONDecodeError (also for text after the value)
json_loads(s) ==
    LET r == scan_once(s, SkipSpaces(s, 1))
    IN  IF r.ok /\ SkipSpaces(s, r.next) = Len(s) + 1 THEN r ELSE JsonFail

\* cleaned.split(",")
RECURSIVE split(_)
split(s) ==
    IF \A k \in DOMAIN s : s[k] # "," THEN <<s>>
    ELSE LET k == CHOOSE c \in DOMAIN s : s[c] = "," /\ \A b \in 1..(c - 1) : s[b] # ","
         IN  <<SubSeq(s, 1, k - 1)>> \o split(SubSeq(s, k + 1, Len(s)))

\* [p.strip() for p in cleaned.split(",") if p.strip()]
pieces_of(s) ==
    LET parts == split(s)
        kept == SelectSeq(parts, LAMBDA part : strip(part) # <<>>)
    IN  [k \in DOMAIN kept |-> strip(kept[k])]

\* int(p) of a stripped, non-empty string succeeds on a run of digits
int_ok(piece) == \A k \in DOMAIN piece : piece[k] \in Digits
int_of(piece) == Decimal(piece, 1, Len(piece))

NormalizedList(items) == [kind |-> "list", items |-> items]
NormalizeRaises(e, named) == [kind |-> "raise", error |-> e, named |-> named]

\* the result of normalize_predecessors(value)
normalize_predecessors_of(v) ==
    IF v.shape = "None" THEN NormalizedList(<<>>)
    ELSE IF v.shape = "str"
    THEN LET cleaned == strip(v.chars)
         IN  IF cleaned = <<>> THEN NormalizedList(<<>>)
             ELSE LET parsed == json_loads(cleaned)
                  IN  IF parsed.ok
                      THEN IF parsed.val.t = "list"
                           THEN IF \A k \in DOMAIN parsed.val.items :
                                       parsed.val.items[k].t = "int"
                                THEN NormalizedList([k \in DOMAIN parsed.val.items |->
                                                        parsed.val.items[k].n])
                                ELSE NormalizeRaises("TypeError", <<>>)
                           ELSE NormalizeRaises("ValueError", v.chars)
                      ELSE LET pieces == pieces_of(cleaned)
                           IN  IF \A k \in DOMAIN pieces : int_ok(pieces[k])
                               THEN NormalizedList([k \in DOMAIN pieces |->
                                                       int_of(pieces[k])])
                               ELSE LET bad == CHOOSE k \in DOMAIN pieces :
                                                   /\ ~int_ok(pieces[k])
                                                   /\ \A b \in 1..(k - 1) : int_ok(pieces[b])
                                    IN  NormalizeRaises("ValueError", pieces[bad])
    ELSE IF v.shape = "list" THEN NormalizedList(v.items)
    ELSE NormalizeRaises("ValueError", <<>>)

outside_normalize ==
    <<engine_vars, server_vars, benchmark_vars, cycle_vars, jira_vars, request_vars>>

NormalizeInit ==
    /\ \/ value = [shape |-> "None"]
       \/ value = [shape |-> "other"]
       \/ \E n \in 0..MaxChars : \E chars \in [1..n -> Alphabet] :
              value = [shape |-> "str", chars |-> chars]
       \/ \E n \in 0..2 : \E items \in [1..n -> 1..3] :
              value = [shape |-> "list", items |-> items]
    /\ normalized = [kind |-> "pending"]
    /\ risks = <<>>
    /\ risks_is_none = FALSE
    /\ num_records = 15
    /\ deadline = 1
    /\ team_capacity = 1
    /\ target_score_max = None
    /\ target_remaining_ratio = [num |-> 1, den |-> 2]
    /\ solver = "none"
    /\ pc = "call"
    /\ outcome = None
    /\ raised = "none"
    /\ ServerAtStartup
    /\ BenchmarkAtRest
    /\ CycleAtRest
    /\ JiraAtRest
    /\ RequestAtRest

normalize_predecessors ==
    /\ normalized.kind = "pending"
    /\ normalized' = normalize_predecessors_of(value)
    /\ UNCHANGED value
    /\ UNCHANGED outside_normalize

NormalizeNext == normalize_predecessors

NormalizeSpec == NormalizeInit /\ [][NormalizeNext]_vars

\* the stated rule: a string that parses as an array gives its integers; any
\* other string is split on commas and every trimmed piece read as an integer;
\* an element or piece that is not an integer is an error
StatedOfString(chars) ==
    LET cleaned == strip(chars)
        parsed == json_loads(cleaned)
    IN  IF cleaned = <<>> THEN [ok |-> TRUE, ids |-> {}]
        ELSE IF parsed.ok /\ parsed.val.t = "list"
        THEN IF \A k \in DOMAIN parsed.val.items : parsed.val.items[k].t = "int"
             THEN [ok |-> TRUE,
                   ids |-> {parsed.val.items[k].n : k \in DOMAIN parsed.val.items}]
             ELSE [ok |-> FALSE, ids |-> {}]
        ELSE LET pieces == pieces_of(cleaned)
             IN  IF \A k \in DOMAIN pieces : int_ok(pieces[k])
                 THEN [ok |-> TRUE, ids |-> {int_of(pieces[k]) : k \in DOMAIN pieces}]
                 ELSE [ok |-> FALSE, ids |-> {}]

StatedPredecessors(v) ==
    IF v.shape = "None" THEN [ok |-> TRUE, ids |-> {}]
    ELSE IF v.shape = "list"
    THEN [ok |-> TRUE, ids |-> {v.items[k] : k \in DOMAIN v.items}]
    ELSE StatedOfString(v.chars)

\* C23: normalization follows the stated rule for every input shape: None or
\* an empty string gives no predecessors; a list of integers or a string
\* holding an array gives those integers; any other string is split on
\* commas and every trimmed piece read as an integer ("3" gives {3}, "1, 2"
\* gives {1, 2}); a piece that is not an integer gives a validation error.
C23_NormalizationFollowsRule ==
    (normalized.kind # "pending" /\ value.shape \in {"None", "str", "list"}) =>
        LET stated == StatedPredecessors(value)
        IN  IF ~stated.ok
            THEN normalized.kind = "raise" /\ normalized.error = "ValueError"
            ELSE /\ normalized.kind = "list"
                 /\ {normalized.items[k] : k \in DOMAIN normalized.items} = stated.ids


(***************************************************************************)
(* The order of the checks of validate_risk_data.                          *)
(***************************************************************************)
\* the first violated category in the stated order, each category looked for
\* in the whole dataset before the next
StatedFirstViolation(df) ==
    IF Len(df) = 0 THEN "empty"
    ELSE IF \E j, k \in DOMAIN df : j # k /\ df[j].ID = df[k].ID THEN "duplicate_ids"
    ELSE IF \E k \in DOMAIN df : df[k].LeadTime <= 0 THEN "lead_time"
    ELSE IF \E k \in DOMAIN df : df[k].Capacity <= 0 THEN "capacity"
    ELSE IF \E k \in DOMAIN df : df[k].CTA < 0 THEN "cta"
    ELSE IF \E k \in DOMAIN df : df[k].Score < 0 \/ df[k].Res_Score < 0 THEN "negative_score"
    ELSE IF \E k \in DOMAIN df : df[k].Res_Score > df[k].Score THEN "residual_exceeds_score"
    ELSE IF \E k \in DOMAIN df : \E j \in DOMAIN df[k].Predecessors :
                df[k].Predecessors[j] \notin Ids(df) THEN "missing_predecessor"
    ELSE IF \E k \in DOMAIN df : \E j \in DOMAIN df[k].Predecessors :
                df[k].Predecessors[j] = df[k].ID THEN "self_predecessor"
    ELSE IF HasDirectedCycle(df) THEN "cycle"
    ELSE "ok"

\* C24: a dataset that violates several categories fails with the error of
\* the first violated one in the order duplicate ids, duration, demand, cost,
\* negative score, residual > score, missing predecessor, self-predecessor,
\* cycle; a missing id listed after another task's self-reference is still
\* reported as a missing predecessor.
C24_FirstViolatedCategory ==
    (pc = "raised" /\ ~risks_is_none) => raised = StatedFirstViolation(risks)


(***************************************************************************)
(* _ensure_acyclic_dependency_graph, call by call.  dfs is a nested        *)
(* function that calls itself for every predecessor; every call in         *)
(* progress is a frame of the interpreter's call stack, and a call made    *)
(* when RecursionLimit frames are in progress raises RecursionError (the   *)
(* interpreter's limit, 1000 by default, scaled to the datasets here).     *)
(***************************************************************************)
RecursionLimit == 3

outside_cycle ==
    <<engine_vars, server_vars, normalize_vars, benchmark_vars, jira_vars, request_vars>>

\* no predecessor, or one of the n ids
SinglePredecessor(n) == {<<>>} \cup {<<a>> : a \in 1..n}

\* the datasets that reach the cycle check: every earlier check has passed;
\* up to MaxTasks + 1 tasks with up to two predecessors each, and MaxTasks + 2
\* tasks with at most one
CycleInit ==
    /\ \/ \E n \in 1..(MaxTasks + 1) :
              \E preds \in [1..n -> PredecessorLists(n)] :
                  /\ risks = GraphFrame(n, preds)
                  /\ PredecessorError(risks) = "ok"
       \/ \E preds \in [1..(MaxTasks + 2) -> SinglePredecessor(MaxTasks + 2)] :
              /\ risks = GraphFrame(MaxTasks + 2, preds)
              /\ PredecessorError(risks) = "ok"
    /\ risks_is_none = FALSE
    /\ num_records = 15
    /\ deadline = 1
    /\ team_capacity = 1
    /\ target_score_max = None
    /\ target_remaining_ratio = [num |-> 1, den |-> 1]
    /\ solver = "none"
    /\ pc = "call"
    /\ outcome = None
    /\ raised = "none"
    /\ ServerAtStartup
    /\ NormalizeAtRest
    /\ BenchmarkAtRest
    /\ CycleAtRest
    /\ JiraAtRest
    /\ RequestAtRest

\* a call dfs(node): RecursionError at the limit, else a new frame
dfs_call(node) ==
    IF Len(dfs_stack) >= RecursionLimit
    THEN /\ dfs_pc' = "raised"
         /\ dfs_raised' = "RecursionError"
         /\ UNCHANGED <<dfs_stack, dfs_visiting, dfs_visited>>
    ELSE /\ dfs_stack' = Append(dfs_stack, [node |-> node, at |-> 0])
         /\ UNCHANGED <<dfs_pc, dfs_raised, dfs_visiting, dfs_visited>>

dfs_return ==
    dfs_stack' = SubSeq(dfs_stack, 1, Len(dfs_stack) - 1)

\* for node in graph: dfs(node)
dfs_outer_loop ==
    /\ dfs_pc = "loop"
    /\ dfs_stack = <<>>
    /\ node_index < Len(risks)
    /\ node_index' = node_index + 1
    /\ dfs_call(risks[node_index + 1].ID)
    /\ UNCHANGED outside_cycle

\* the body of dfs in the innermost call: the two membership tests on entry,
\* then one predecessor per step, then the bookkeeping before the return
dfs_body ==
    /\ dfs_pc = "loop"
    /\ dfs_stack # <<>>
    /\ LET top == dfs_stack[Len(dfs_stack)]
           preds == DependencyGraph(risks)[top.node]
           advanced == [dfs_stack EXCEPT ![Len(dfs_stack)].at = top.at + 1]
       IN  IF top.at = 0
           THEN IF top.node \in dfs_visited
                THEN dfs_return /\ UNCHANGED <<dfs_pc, dfs_raised, dfs_visiting, dfs_visited>>
                ELSE IF top.node \in dfs_visiting
                THEN /\ dfs_pc' = "raised"
                     /\ dfs_raised' = "cycle"
                     /\ UNCHANGED <<dfs_stack, dfs_visiting, dfs_visited>>
                ELSE /\ dfs_visiting' = dfs_visiting \cup {top.node}
                     /\ dfs_stack' = advanced
                     /\ UNCHANGED <<dfs_pc, dfs_raised, dfs_visited>>
           ELSE IF top.at <= Len(preds)
           THEN IF preds[top.at] \in DOMAIN DependencyGraph(risks)
                THEN IF Len(dfs_stack) >= RecursionLimit
                     THEN /\ dfs_pc' = "raised"
                          /\ dfs_raised' = "RecursionError"
                          /\ UNCHANGED <<dfs_stack, dfs_visiting, dfs_visited>>
                     ELSE /\ dfs_stack' = Append(advanced,
                                                 [node |-> preds[top.at], at |-> 0])
                          /\ UNCHANGED <<dfs_pc, dfs_raised, dfs_visiting, dfs_visited>>
                ELSE /\ dfs_stack' = advanced
                     /\ UNCHANGED <<dfs_pc, dfs_raised, dfs_visiting, dfs_visited>>
           ELSE /\ dfs_visiting' = dfs_visiting \ {top.node}
                /\ dfs_visited' = dfs_visited \cup {top.node}
                /\ dfs_return
                /\ UNCHANGED <<dfs_pc, dfs_raised>>
    /\ UNCHANGED node_index
    /\ UNCHANGED outside_cycle

\* the outer loop is over: _ensure_acyclic_dependency_graph returns
dfs_done ==
    /\ dfs_pc = "loop"
    /\ dfs_stack = <<>>
    /\ node_index = Len(risks)
    /\ dfs_pc' = "done"
    /\ UNCHANGED <<node_index, dfs_stack, dfs_visiting, dfs_visited, dfs_raised>>
    /\ UNCHANGED outside_cycle

CycleNext == dfs_outer_loop \/ dfs_body \/ dfs_done

CycleSpec == CycleInit /\ [][CycleNext]_vars

\* C25: cycle detection does not nest calls with the length of a chain: an
\* acyclic dataset is accepted whatever the length n of its longest
\* predecessor chain, also when n exceeds the call-stack limit.
C25_AcyclicChainsAccepted ==
    (dfs_pc # "loop" /\ ~HasDirectedCycle(risks)) => dfs_pc = "done"


(***************************************************************************)
(* The big-M precedence inequality of solve_with_pulp.                     *)
(***************************************************************************)
\* the dataset is accepted and solve_with_pulp gets as far as the precedence
\* constraints
PulpConstraintsBuilt ==
    /\ deadline >= 1
    /\ validate_risk_data(risks) = "ok"
    /\ ~pulp_raises_key_error(risks, deadline)

\* C27: the inequality start_i >= start_pred + duration_pred - M(1 - selected_i)
\* with M = 2 * deadline excludes no assignment in which task i is not
\* selected: whatever the placement of the predecessor that the deadline-fit
\* constraints allow, it holds when selected_i = 0, and when selected_i = 1 it
\* is start_i >= start_pred + duration_pred.
C27_BigMHarmless ==
    PulpConstraintsBuilt =>
        \A sel \in SUBSET Ids(risks) : \A st \in Placements(sel, deadline) :
            pulp_deadline_ok(risks, deadline, sel, st) =>
                \A k \in DOMAIN risks : \A j \in DOMAIN risks[k].Predecessors :
                    LET i == risks[k].ID
                        pred == risks[k].Predecessors[j]
                        row == pulp_precedence_row(risks, deadline, sel, st, i, pred)
                    IN  IF i \notin sel THEN row
                        ELSE row <=> (st[i] >= pulp_start(sel, st, pred)
                                                  + RowOf(risks, pred).LeadTime)

\* C27 witness: solve_with_pulp returned a schedule with a task whose successor
\* is left out
C27_Witness ==
    /\ PulpConstraintsBuilt
    /\ solver = "pulp"
    /\ FeasibleOutcome
    /\ \E k \in DOMAIN risks : \E j \in DOMAIN risks[k].Predecessors :
           /\ risks[k].ID \notin ScheduleIds
           /\ risks[k].Predecessors[j] \in ScheduleIds


(***************************************************************************)
(* The sample dataset.                                                     *)
(***************************************************************************)
\* C30: for every num_records >= 1 the frame get_sample_data(num_records)
\* returns, the first min(num_records, 15) sample tasks, passes
\* validate_risk_data: its ids are unique, durations and demands positive,
\* residuals at most the scores, every predecessor id is smaller than the id
\* of its task (so within the prefix), and the predecessor graph is acyclic.
C30_SamplePrefixesValid ==
    (risks_is_none /\ num_records >= 1) =>
        LET sample == get_sample_data(num_records)
            n == IF num_records <= 15 THEN num_records ELSE 15
        IN  /\ pc # "call" => pc = "done"
            /\ Len(sample) = n
            /\ \A k \in 1..n : sample[k] = BASE_SAMPLE_DATA[k]
            /\ \A j, k \in 1..n : j # k => sample[j].ID # sample[k].ID
            /\ \A k \in 1..n :
                   /\ sample[k].LeadTime > 0 /\ sample[k].Capacity > 0
                   /\ sample[k].Res_Score <= sample[k].Score
                   /\ \A j \in DOMAIN sample[k].Predecessors :
                          /\ sample[k].Predecessors[j] < sample[k].ID
                          /\ sample[k].Predecessors[j] \in Ids(sample)
            /\ ~HasDirectedCycle(sample)

\* C30 witness: a call for more records than there are sample tasks was prepared
C30_Witness ==
    /\ risks_is_none
    /\ num_records > Len(BASE_SAMPLE_DATA)
    /\ pc = "done"


(***************************************************************************)
(* jira_bulk_from_template.main with its StateStore.  A run loads the      *)
(* state file, walks the items in order, creates the ones the state does   *)
(* not hold and records each key with set_issue, which rewrites the file.  *)
(* A run may fail at any step (a request raises, the process is stopped);  *)
(* the next run starts from the file.                                      *)
(***************************************************************************)
MaxRuns == 3

EngineAtRest ==
    /\ risks = <<>>
    /\ risks_is_none = FALSE
    /\ num_records = 15
    /\ deadline = 1
    /\ team_capacity = 1
    /\ target_score_max = None
    /\ target_remaining_ratio = [num |-> 1, den |-> 2]
    /\ solver = "none"
    /\ pc = "call"
    /\ outcome = None
    /\ raised = "none"

outside_jira ==
    <<engine_vars, server_vars, normalize_vars, benchmark_vars, cycle_vars, request_vars>>

JiraInit ==
    /\ EngineAtRest
    /\ ServerAtStartup
    /\ NormalizeAtRest
    /\ BenchmarkAtRest
    /\ CycleAtRest
    /\ JiraAtRest
    /\ RequestAtRest

\* state = StateStore(args.state_file): the file is read if it exists
StateStore_init ==
    /\ run_pc = "idle"
    /\ runs < MaxRuns
    /\ runs' = runs + 1
    /\ data' = state_file
    /\ item_index' = 1
    /\ issue_key' = 0
    /\ run_pc' = "get_issue"
    /\ UNCHANGED <<state_file, jira_issues>>
    /\ UNCHANGED outside_jira

\* key = state.get_issue(id) or "": an item the state holds is not created
get_issue ==
    /\ run_pc = "get_issue"
    /\ item_index <= Len(ItemIds)
    /\ IF data[ItemIds[item_index]] # 0
       THEN item_index' = item_index + 1 /\ UNCHANGED run_pc
       ELSE run_pc' = "create_issue" /\ UNCHANGED item_index
    /\ UNCHANGED <<state_file, data, jira_issues, issue_key, runs>>
    /\ UNCHANGED outside_jira

\* client.create_issue(...) returns the key of the issue Jira created
create_issue ==
    /\ run_pc = "create_issue"
    /\ LET id == ItemIds[item_index]
       IN  /\ jira_issues' = [jira_issues EXCEPT ![id] = @ + 1]
           /\ issue_key' = jira_issues[id] + 1
    /\ run_pc' = "set_issue"
    /\ UNCHANGED <<state_file, data, item_index, runs>>
    /\ UNCHANGED outside_jira

\* StateStore.save: the file holds what the store holds
saved(file, issues) == issues

\* state.set_issue(id, key): the key is recorded and the file rewritten
set_issue ==
    /\ run_pc = "set_issue"
    /\ LET recorded == [data EXCEPT ![ItemIds[item_index]] = issue_key]
       IN  /\ data' = recorded
           /\ state_file' = saved(state_file, recorded)
    /\ issue_key' = 0
    /\ item_index' = item_index + 1
    /\ run_pc' = "get_issue"
    /\ UNCHANGED <<jira_issues, runs>>
    /\ UNCHANGED outside_jira

\* main returns after the last item
main_returns ==
    /\ run_pc = "get_issue"
    /\ item_index > Len(ItemIds)
    /\ run_pc' = "idle"
    /\ UNCHANGED <<state_file, data, jira_issues, item_index, issue_key, runs>>
    /\ UNCHANGED outside_jira

\* the run ends with an exception or is stopped: a request of create_issue,
\* set_acceptance_criteria or link_issues raises, or the process dies before
\* set_issue has written the file
main_aborts ==
    /\ run_pc # "idle"
    /\ run_pc' = "idle"
    /\ issue_key' = 0
    /\ UNCHANGED <<state_file, data, jira_issues, item_index, runs>>
    /\ UNCHANGED outside_jira

JiraNext ==
    \/ StateStore_init
    \/ get_issue
    \/ create_issue
    \/ set_issue
    \/ main_returns
    \/ main_aborts

JiraSpec == JiraInit /\ [][JiraNext]_vars

\* C28: over any sequence of runs on one state file, aborted runs included
\* (a failed request, a failure between create_issue returning and set_issue
\* writing the file), every logical id has at most one issue created for it,
\* and an id recorded in the state file is never created again.
C28_AtMostOneIssuePerId ==
    /\ [](\A id \in LogicalIds : jira_issues[id] <= 1)
    /\ [][\A id \in LogicalIds :
              state_file[id] # 0 => jira_issues'[id] = jira_issues[id]]_vars


(***************************************************************************)
(* JiraClient._request: up to max_retries attempts; an attempt sends the   *)
(* request, and in auto mode answers a 401 to a bearer token with a second *)
(* request under basic authentication.  The server and the network choose  *)
(* every response: a status with a JSON body, an empty body or a body that *)
(* is not JSON, or an exception raised by the send.                        *)
(***************************************************************************)
MaxRetries == 2

RetryStatuses == {429, 500, 502, 503, 504}

Statuses == {200, 204, 401, 404} \cup RetryStatuses

Bodies == {"json", "empty", "text"}

RequestException == [status |-> -1, body |-> "none"]

Responses == {[status |-> st, body |-> b] : st \in Statuses, b \in Bodies}

outside_request ==
    <<engine_vars, server_vars, normalize_vars, benchmark_vars, cycle_vars, jira_vars>>

RequestInit ==
    /\ EngineAtRest
    /\ ServerAtStartup
    /\ NormalizeAtRest
    /\ BenchmarkAtRest
    /\ CycleAtRest
    /\ JiraAtRest
    /\ max_retries \in 0..MaxRetries
    /\ auth_mode \in {"basic", "bearer", "auto"}
    /\ email \in BOOLEAN
    /\ authorization = (IF auth_mode = "basic" THEN "Basic" ELSE "Bearer")
    /\ attempt = 0
    /\ sent = <<>>
    /\ resp = NoResponse
    /\ request_pc = "loop"

\* mutant: an exception ends the call at once, whatever the attempt
AfterException_raise_at_once(k, limit) == "raised"

\* the except branch: sleep and continue below the limit, RuntimeError at it
AfterException(k, limit) == IF k < limit THEN "loop" ELSE "raised"

\* the end of an attempt whose response is final: a status >= 400 raises
\* inside the try and lands in the except branch, as does resp.json() on a
\* body that is not JSON; 204 or an empty body returns {}, a JSON body is
\* returned parsed
AfterResponse(r, k, limit) ==
    IF r.status >= 400 THEN AfterException(k, limit)
    ELSE IF r.status = 204 \/ r.body = "empty" THEN "returned"
    ELSE IF r.body = "json" THEN "returned"
    ELSE AfterException(k, limit)

\* for attempt in range(1, max_retries + 1): session.request(...)
attempt_send ==
    /\ request_pc = "loop"
    /\ attempt < max_retries
    /\ attempt' = attempt + 1
    /\ sent' = Append(sent, 1)
    /\ \E r \in Responses \cup {RequestException} : resp' = r
    /\ request_pc' = "first"
    /\ UNCHANGED <<max_retries, auth_mode, email, authorization>>
    /\ UNCHANGED outside_request

\* the handling of the first response of an attempt
attempt_handle ==
    /\ request_pc = "first"
    /\ IF resp = RequestException
       THEN request_pc' = AfterException(attempt, max_retries) /\ UNCHANGED authorization
       ELSE IF resp.status \in RetryStatuses
       THEN request_pc' = "loop" /\ UNCHANGED authorization
       ELSE IF resp.status = 401 /\ auth_mode = "auto" /\ authorization = "Bearer" /\ email
       THEN request_pc' = "fallback" /\ authorization' = "Basic"
       ELSE /\ request_pc' = AfterResponse(resp, attempt, max_retries)
            /\ UNCHANGED authorization
    /\ UNCHANGED <<max_retries, auth_mode, email, attempt, sent, resp>>
    /\ UNCHANGED outside_request

\* the second request of the attempt, under basic authentication
fallback_send ==
    /\ request_pc = "fallback"
    /\ sent' = [sent EXCEPT ![attempt] = 2]
    /\ \E r \in Responses \cup {RequestException} : resp' = r
    /\ request_pc' = "second"
    /\ UNCHANGED <<max_retries, auth_mode, email, authorization, attempt>>
    /\ UNCHANGED outside_request

\* the handling of the second response
fallback_handle ==
    /\ request_pc = "second"
    /\ request_pc' = (IF resp = RequestException
                      THEN AfterException(attempt, max_retries)
                      ELSE AfterResponse(resp, attempt, max_retries))
    /\ UNCHANGED <<max_retries, auth_mode, email, authorization, attempt, sent, resp>>
    /\ UNCHANGED outside_request

\* the loop ends without a return: raise RuntimeError
loop_exhausted ==
    /\ request_pc = "loop"
    /\ attempt >= max_retries
    /\ request_pc' = "raised"
    /\ UNCHANGED <<max_retries, auth_mode, email, authorization, attempt, sent, resp>>
    /\ UNCHANGED outside_request

RequestNext ==
    \/ attempt_send
    \/ attempt_handle
    \/ fallback_send
    \/ fallback_handle
    \/ loop_exhausted

\* every step of _request is taken: sends time out after 45 s and sleeps end
RequestSpec == RequestInit /\ [][RequestNext]_vars /\ WF_vars(RequestNext)

RequestEnded == request_pc \in {"returned", "raised"}

\* at most max_retries attempts, at most two requests in each, two only for
\* the bearer-to-basic fallback of auto mode
AttemptsBounded ==
    /\ attempt <= max_retries
    /\ Len(sent) = attempt
    /\ \A k \in DOMAIN sent :
           /\ sent[k] \in {1, 2}
           /\ sent[k] = 2 => (auth_mode = "auto" /\ email)

\* RuntimeError is raised only after the last attempt, so a retry status or an
\* exception below the limit is followed by the next attempt
RaisedAfterLastAttempt == request_pc = "raised" => attempt = max_retries

\* a return hands back the body of a response below 400
ReturnedOnSuccess ==
    request_pc = "returned" => (resp # RequestException /\ resp.status < 400)

\* C29: _request ends after at most max_retries attempts of at most two
\* requests each (the second only for the 401 fallback of auto mode); it
\* returns the body as soon as an attempt gets a status below 400 and raises
\* RuntimeError after the last attempt otherwise; a retry status or an
\* exception below the limit leads to the next attempt.
C29_RequestTerminates ==
    /\ <>RequestEnded
    /\ [](AttemptsBounded /\ RaisedAfterLastAttempt /\ ReturnedOnSuccess)
    /\ []((request_pc \in {"loop", "raised"} /\ resp # RequestException
             /\ resp # NoResponse /\ resp.status < 400) => FALSE)

\* C29 as the code has it: a status below 400 ends the call when the body is
\* empty or JSON (or the status is 204); a body that is not JSON makes
\* resp.json() raise, which is handled as a raised error.
C29_RequestTerminatesOrRetriesBody ==
    /\ <>RequestEnded
    /\ [](AttemptsBounded /\ RaisedAfterLastAttempt /\ ReturnedOnSuccess)
    /\ []((request_pc \in {"loop", "raised"} /\ resp # RequestException
             /\ resp # NoResponse /\ resp.status < 400)
            => (resp.status # 204 /\ resp.body = "text"))

\* C29 witness: the call returned at the last attempt, from the second
\* request of that attempt, after an earlier attempt had failed
C29_Witness ==
    /\ request_pc = "returned"
    /\ attempt = max_retries
    /\ attempt >= 2
    /\ sent[attempt] = 2

====
